---- MODULE Spec2Model ----
(***************************************************************************)
(* Model of backend/translation/rag_translator.py: the Gemini generator     *)
(* client (retry / backoff / pacing), the LRU translation cache, the        *)
(* sentence chunker, the embedder and the in-memory vector store, the       *)
(* per-chunk loops of translate_document and of translate_streaming, and    *)
(* the reassembly of the translated chunks.                                 *)
(*                                                                          *)
(* Conventions                                                              *)
(*   - a Python str that the code slices is a sequence of one-character     *)
(*     strings; an error message (never sliced) is a TLA+ string;           *)
(*   - an Optional value is None (the empty tuple) or Some(v) (a 1-tuple);  *)
(*   - time is counted in ticks of 0.1 second.                              *)
(***************************************************************************)
EXTENDS Integers, Sequences, FiniteSets, TLC

\* ------------------------------------------------------------------------
\* Bounds of the model
\* ------------------------------------------------------------------------
MaxCapacity == 2      \* capacities 1..MaxCapacity of a stand-alone cache
MaxOps == 5           \* get/set operations on a stand-alone cache
MaxCalls == 2         \* generate calls made by the stand-alone driver
MaxChunks == 2        \* chunks of one document
MaxRuns == 2          \* translate_document runs on one pipeline instance
MaxWork == 4          \* chunks handed to one pipeline instance over its runs
MaxShared == 16       \* characters two adjacent translated chunks share
MaxPieces == 4        \* sentences, gaps and page markers of a document text
MaxStored == 2        \* chunks held by a stand-alone vector store
MaxFillRuns == 3      \* runs on a pipeline instance whose cache they fill
MaxFillWork == 5      \* chunks handed to that instance over its runs

\* ------------------------------------------------------------------------
\* Program constants
\* ------------------------------------------------------------------------
CHUNK_SIZE == 1200
EMBED_DIM == 256              \* SimpleEmbedder(dim=256)
OVERLAP_SIZE == 150
MAX_RETRIES == 3
SHORT_TEXT == 10
CACHE_SIZE == 100
REQUEST_TIMEOUT == 250        \* 25 s
RATE_LIMIT_GAP == 5           \* 0.5 s, the threshold of _rate_limit
RATE_LIMIT_SLEEP == 5         \* 0.5 s, the sleep of _rate_limit
OVERLOAD_BACKOFF == 20        \* 2 s after HTTP 503
ERROR_BACKOFF == 10           \* 1 s after a timeout or another exception
CHUNK_PAUSE == 3              \* 0.3 s between chunks
PLACEHOLDER_CHARS == 100      \* chunk.text[:100]
CONTEXT_CHARS == 200          \* translation[-200:], context[:200]

\* ------------------------------------------------------------------------
\* Python values
\* ------------------------------------------------------------------------
None == <<>>
Some(v) == <<v>>
Min(a, b) == IF a <= b THEN a ELSE b
Max(a, b) == IF a >= b THEN a ELSE b

\* bool(x) of an Optional[str] whose string is a character sequence
TruthyText(o) == o # None /\ Len(o[1]) > 0
\* bool(x) of an Optional[str] whose string is an error message
TruthyMsg(o) == o # None /\ o[1] # ""

\* s[:n]
Prefix(s, n) == SubSeq(s, 1, Min(n, Len(s)))
\* a slice that keeps the leading n characters instead of the trailing ones
Suffix_leading(s, n) == SubSeq(s, 1, Min(n, Len(s)))

\* s[-n:]  (n > 0)
Suffix(s, n) == SubSeq(s, Max(1, Len(s) - n + 1), Len(s))

IsSpace(c) == c \in {" ", "\t", "\n"}

RECURSIVE lstrip(_)
lstrip(s) == IF s # <<>> /\ IsSpace(Head(s)) THEN lstrip(Tail(s)) ELSE s

RECURSIVE rstrip(_)
rstrip(s) ==
  IF s # <<>> /\ IsSpace(s[Len(s)]) THEN rstrip(SubSeq(s, 1, Len(s) - 1)) ELSE s

\* strip that trims the left end only
strip_left_only(s) == lstrip(s)

\* str.strip()
strip(s) == rstrip(lstrip(s))

\* str.lower on the characters of the model
lower_char(c) ==
  CASE c = "T" -> "t"
    [] c = "K" -> "k"
    [] c = "O" -> "o"
    [] OTHER -> c
lower(s) == [i \in DOMAIN s |-> lower_char(s[i])]

\* ------------------------------------------------------------------------
\* State
\* ------------------------------------------------------------------------
VARIABLES
  \* TranslationCache
  cache,        \* the OrderedDict: sequence of [key, val], oldest first
  max_size,
  hits,
  misses,
  \* observers of the stand-alone cache driver
  opclock,      \* number of get/set operations performed so far
  stamp,        \* key -> opclock of its insertion or latest get hit
  lastOp,       \* what the latest operation did
  lookups,      \* outcomes of the get calls so far, "hit" / "miss"
  \* GeminiGenerator
  api_key,
  request_count,
  since_request,  \* time.time() - last_request_time, saturating at AgeCap
  gpc,            \* position of generate: "idle", "post" or "returned"
  attempt,        \* the loop variable of generate
  ret,            \* the (text, error) pair generate returned
  \* observers of the generator
  calls,          \* generate calls started so far
  count_before,   \* request_count when the current call started
  events,         \* posts and sleeps of the current call, in order
  resp_text,      \* the raw text of the latest 200 response with candidates
  since_attempt,  \* time since the latest requests.post started, saturating
  last_gap,       \* time between the starts of the latest two posts
  \* RAGTranslationPipeline.translate_document
  ppc,            \* position: "idle", "loop", "generating", "done", "raised"
  runs,           \* runs started so far on this pipeline instance
  work,           \* chunks of the documents of these runs, in all
  chunks,         \* the chunk texts of the document; chunk k has id k - 1
  idx,            \* the loop variable i
  translated_chunks,
  errors,
  cached_count,
  previous_translation,
  prompt,         \* the prompt of the latest generate call
  result,         \* what the latest run returned
  \* observer of the pipeline
  chunk_log,      \* per processed chunk: served from the cache? generate's pair
  run_log,        \* what the run has done so far, in order (see Lg)
  \* RAGTranslationPipeline.translate_streaming
  translated_parts,
  yielded,        \* the events the generator has yielded so far
  \* a function called on its own
  arg,            \* the arguments of the call
  out,            \* None before the call, then Some(what it returned)
  \* SimpleEmbedder and InMemoryVectorStore
  hash_of,        \* hash(token) % dim of this process, per token
  store_chunks,   \* InMemoryVectorStore.chunks
  index_built,
  \* observer of the vector store
  embedded,       \* embed calls made by the latest operation on the store
  \* the runs of a pipeline instance, one after the other
  target_lang,    \* the target_lang argument of the latest run
  stored_lang,    \* observer: cache key -> target_lang of the run that set it
  repeat_of,      \* observer: Some(text the run before returned) when this
                  \* run repeats a run that translated every chunk, else None
  tasks           \* per concurrent run: where it stands in cache.get or
                  \* cache.set, and the key and the value it holds

cacheVars == <<cache, max_size, hits, misses>>
cacheObs == <<opclock, stamp, lastOp, lookups>>
genVars == <<api_key, request_count, since_request, gpc, attempt, ret>>
genObs == <<calls, count_before, events, resp_text, since_attempt, last_gap>>
pipeVars == <<ppc, runs, work, chunks, idx, translated_chunks, errors, cached_count,
              previous_translation, prompt, result>>
pipeObs == <<chunk_log, run_log>>
streamVars == <<translated_parts, yielded>>
fnVars == <<arg, out>>
storeVars == <<hash_of, store_chunks, index_built>>
storeObs == <<embedded>>
runVars == <<target_lang, stored_lang, repeat_of, tasks>>
vars == <<cacheVars, cacheObs, genVars, genObs, pipeVars, pipeObs, streamVars,
          fnVars, storeVars, storeObs, runVars>>

\* ------------------------------------------------------------------------
\* TranslationCache
\* ------------------------------------------------------------------------
\* hashlib.md5(text).hexdigest(): a digest, one per text (collision-free on
\* the texts of the model)
_hash_key(text) == <<"md5", text>>

Keys(c) == {c[i].key : i \in DOMAIN c}
IndexOf(c, key) == CHOOSE i \in DOMAIN c : c[i].key = key
Without(c, i) == SubSeq(c, 1, i - 1) \o SubSeq(c, i + 1, Len(c))

\* OrderedDict.move_to_end(key)
move_to_end(c, key) ==
  LET i == IndexOf(c, key) IN Append(Without(c, i), c[i])

\* OrderedDict.popitem(last=False)
popitem_first(c) == Tail(c)

\* OrderedDict.__setitem__: an existing key keeps its position
setitem(c, key, val) ==
  IF key \in Keys(c)
    THEN [c EXCEPT ![IndexOf(c, key)].val = val]
    ELSE Append(c, [key |-> key, val |-> val])

\* get without the promotion of the entry that was hit
get_no_promote(c, h, m, text) ==
  LET key == _hash_key(text) IN
  IF key \in Keys(c)
    THEN [cache |-> c, hits |-> h + 1, misses |-> m,
          ret |-> c[IndexOf(c, key)].val]
    ELSE [cache |-> c, hits |-> h, misses |-> m + 1, ret |-> None]

\* TranslationCache.get: the new cache, the new counters and the result
get(c, h, m, text) ==
  LET key == _hash_key(text) IN
  IF key \in Keys(c)
    THEN [cache |-> move_to_end(c, key), hits |-> h + 1, misses |-> m,
          ret |-> c[IndexOf(c, key)].val]
    ELSE [cache |-> c, hits |-> h, misses |-> m + 1, ret |-> None]

\* set that evicts only once the capacity is already exceeded
set_evict_late(c, cap, text, translation) ==
  LET key == _hash_key(text)
      c1 == IF Len(c) > cap THEN popitem_first(c) ELSE c
  IN setitem(c1, key, translation)

\* TranslationCache.set: the new cache
set(c, cap, text, translation) ==
  LET key == _hash_key(text)
      c1 == IF Len(c) >= cap THEN popitem_first(c) ELSE c
  IN setitem(c1, key, translation)

\* get_stats whose hit rate is taken over the misses only
get_stats_over_misses(c, h, m) ==
  [size |-> Len(c), hits |-> h, misses |-> m,
   hit_rate |-> IF h + m > 0 THEN [num |-> h, den |-> Max(m, 1)]
                             ELSE [num |-> 0, den |-> 1]]

\* TranslationCache.get_stats; hit_rate is the fraction num/den
get_stats(c, h, m) ==
  [size |-> Len(c), hits |-> h, misses |-> m,
   hit_rate |-> IF h + m > 0 THEN [num |-> h, den |-> h + m]
                             ELSE [num |-> 0, den |-> 1]]

\* ------------------------------------------------------------------------
\* A single caller driving one TranslationCache
\* ------------------------------------------------------------------------
CacheTexts == {<<"a">>, <<"b">>, <<"c">>}
CacheValues == {Some(<<"x">>), Some(<<"y">>)}
NoOp == [op |-> "none", key |-> None, present |-> FALSE, full |-> FALSE,
         before |-> {}, lru |-> None]

\* the least recently used key of a non-empty cache, by the observers' stamps
LruKey(c, st) ==
  CHOOSE k \in Keys(c) : \A k2 \in Keys(c) : st[k] <= st[k2]

OpRecord(name, key) ==
  [op |-> name, key |-> Some(key), present |-> key \in Keys(cache),
   full |-> Len(cache) >= max_size, before |-> Keys(cache),
   lru |-> IF cache = <<>> THEN None ELSE Some(LruKey(cache, stamp))]

\* TranslationCache.__init__(max_size)
CacheNew(cap) ==
  /\ cache = <<>>
  /\ max_size = cap
  /\ hits = 0
  /\ misses = 0
  /\ opclock = 0
  /\ stamp = [k \in {_hash_key(t) : t \in CacheTexts} |-> 0]
  /\ lastOp = NoOp
  /\ lookups = <<>>

CacheGet(text) ==
  LET key == _hash_key(text)
      r == get(cache, hits, misses, text)
  IN /\ opclock < MaxOps
     /\ cache' = r.cache
     /\ hits' = r.hits
     /\ misses' = r.misses
     /\ opclock' = opclock + 1
     /\ stamp' = IF key \in Keys(cache)
                   THEN [stamp EXCEPT ![key] = opclock + 1] ELSE stamp
     /\ lastOp' = OpRecord("get", key)
     /\ lookups' = Append(lookups, IF key \in Keys(cache) THEN "hit" ELSE "miss")
     /\ UNCHANGED <<max_size, genVars, genObs, pipeVars, pipeObs>>
     /\ UNCHANGED <<streamVars, fnVars, storeVars, storeObs, runVars>>

CacheSet(text, translation) ==
  LET key == _hash_key(text) IN
  /\ opclock < MaxOps
  /\ cache' = set(cache, max_size, text, translation)
  /\ opclock' = opclock + 1
  /\ stamp' = IF key \notin Keys(IF Len(cache) >= max_size
                                   THEN popitem_first(cache) ELSE cache)
                THEN [stamp EXCEPT ![key] = opclock + 1] ELSE stamp
  /\ lastOp' = OpRecord("set", key)
  /\ UNCHANGED <<max_size, hits, misses, lookups, genVars, genObs, pipeVars,
                 pipeObs>>
  /\ UNCHANGED <<streamVars, fnVars, storeVars, storeObs, runVars>>



\* ------------------------------------------------------------------------
\* GeminiGenerator
\* ------------------------------------------------------------------------
\* every elapsed time of RATE_LIMIT_GAP or more is kept apart from the
\* shorter ones; longer times need not be told apart
AgeCap == RATE_LIMIT_GAP + 1
Adv(age, d) == Min(age + d, AgeCap)

\* what one requests.post can come to
Outcomes == {"429", "503", "ok", "nocandidates", "timeout", "exception"}
\* result['candidates'][0]['content']['parts'][0]['text'] of a 200 response
RespTexts == {<<"o", "k">>, <<" ", "o", "k", "\n">>, <<" ">>}
\* str(e) of an exception other than Timeout
ExcMessages == {"", "HTTP 500"}
\* time one requests.post takes when it does not time out
ReqDurations == {1, 6}

Ev(kind, what, ticks) == [kind |-> kind, what |-> what, ticks |-> ticks]

\* the observers of a call follow the generator when it is driven on its
\* own; inside a pipeline run they stay as they are
Observed(old, new) == IF ppc = "idle" THEN new ELSE old

RECURSIVE Pow2(_)
Pow2(n) == IF n = 0 THEN 1 ELSE 2 * Pow2(n - 1)

\* (2 ** attempt) + 1 seconds
RateLimitBackoff(a) == 10 * (Pow2(a) + 1)

\* GeminiGenerator.__init__
GenNew(key) ==
  /\ api_key = key
  /\ request_count = 0
  /\ since_request = AgeCap
  /\ gpc = "idle"
  /\ attempt = 0
  /\ ret = <<None, None>>
  /\ calls = 0
  /\ count_before = 0
  /\ events = <<>>
  /\ resp_text = <<>>
  /\ since_attempt = AgeCap
  /\ last_gap = AgeCap

\* not (attempt < MAX_RETRIES - 2): the last two attempts both count as final
IsFinalAttempt_early(a) == ~(a < MAX_RETRIES - 2)

\* not (attempt < MAX_RETRIES - 1)
IsFinalAttempt(a) == ~(a < MAX_RETRIES - 1)

\* _rate_limit: the time it sleeps
RateLimitSleep(age) == IF age < RATE_LIMIT_GAP THEN RATE_LIMIT_SLEEP ELSE 0

\* generate, from its entry to the head of the retry loop
GenCall ==
  /\ gpc = "idle"
  /\ calls' = Observed(calls, calls + 1)
  /\ count_before' = Observed(count_before, request_count)
  /\ attempt' = 0
  /\ IF ~TruthyMsg(api_key)
       THEN /\ ret' = <<None, Some("API key not configured")>>
            /\ gpc' = "returned"
            /\ events' = <<>>
            /\ UNCHANGED <<since_request, since_attempt>>
       ELSE LET slept == RateLimitSleep(since_request) IN
            /\ since_request' = 0
            /\ since_attempt' = Adv(since_attempt, slept)
            /\ events' = Observed(events, IF slept > 0
                                             THEN <<Ev("sleep", "pace", slept)>>
                                             ELSE <<>>)
            /\ gpc' = "post"
            /\ ret' = <<None, None>>
  /\ UNCHANGED <<api_key, request_count, resp_text, last_gap>>

\* GenContinue that counts every retried attempt in request_count
GenContinue_count_retry(outcome, d, backoff) ==
  /\ events' = Observed(events, events \o <<Ev("post", outcome, 0),
                                          Ev("sleep", outcome, backoff)>>)
  /\ since_request' = Adv(since_request, d + backoff)
  /\ since_attempt' = Adv(0, d + backoff)
  /\ IF attempt + 1 < MAX_RETRIES
       THEN /\ attempt' = attempt + 1
            /\ gpc' = "post"
            /\ ret' = ret
       ELSE /\ attempt' = attempt
            /\ gpc' = "returned"
            /\ ret' = <<None, Some("Max retries exceeded")>>
  /\ request_count' = request_count + 1
  /\ UNCHANGED resp_text

\* GenContinue with a loop of MAX_RETRIES + 1 iterations
GenContinue_one_more(outcome, d, backoff) ==
  /\ events' = Observed(events, events \o <<Ev("post", outcome, 0),
                                          Ev("sleep", outcome, backoff)>>)
  /\ since_request' = Adv(since_request, d + backoff)
  /\ since_attempt' = Adv(0, d + backoff)
  /\ IF attempt + 1 < MAX_RETRIES + 1
       THEN /\ attempt' = attempt + 1
            /\ gpc' = "post"
            /\ ret' = ret
       ELSE /\ attempt' = attempt
            /\ gpc' = "returned"
            /\ ret' = <<None, Some("Max retries exceeded")>>
  /\ UNCHANGED <<request_count, resp_text>>

\* the end of one iteration that did not return: sleep, then the next
\* iteration, or the fall out of the loop
GenContinue(outcome, d, backoff) ==
  /\ events' = Observed(events, events \o <<Ev("post", outcome, 0),
                                          Ev("sleep", outcome, backoff)>>)
  /\ since_request' = Adv(since_request, d + backoff)
  /\ since_attempt' = Adv(0, d + backoff)
  /\ IF attempt + 1 < MAX_RETRIES
       THEN /\ attempt' = attempt + 1
            /\ gpc' = "post"
            /\ ret' = ret
       ELSE /\ attempt' = attempt
            /\ gpc' = "returned"
            /\ ret' = <<None, Some("Max retries exceeded")>>
  /\ UNCHANGED <<request_count, resp_text>>

\* GenReturn that loses the error of a failed call
GenReturn_drop_error(outcome, d, text, error) ==
  /\ events' = Observed(events, Append(events, Ev("post", outcome, 0)))
  /\ since_request' = Adv(since_request, d)
  /\ since_attempt' = Adv(0, d)
  /\ attempt' = attempt
  /\ gpc' = "returned"
  /\ ret' = <<text, None>>

\* a return from inside the loop
GenReturn(outcome, d, text, error) ==
  /\ events' = Observed(events, Append(events, Ev("post", outcome, 0)))
  /\ since_request' = Adv(since_request, d)
  /\ since_attempt' = Adv(0, d)
  /\ attempt' = attempt
  /\ gpc' = "returned"
  /\ ret' = <<text, error>>

\* one iteration of the retry loop of generate
GenPost(outcome, text, msg, d) ==
  /\ gpc = "post"
  /\ last_gap' = since_attempt
  /\ CASE outcome = "429" -> GenContinue(outcome, d, RateLimitBackoff(attempt))
       [] outcome = "503" -> GenContinue(outcome, d, OVERLOAD_BACKOFF)
       [] outcome = "ok" ->
            /\ request_count' = request_count + 1
            /\ resp_text' = Observed(resp_text, text)
            /\ GenReturn(outcome, d, Some(strip(text)), None)
       [] outcome = "nocandidates" ->
            /\ GenReturn(outcome, d, None, Some("No response generated"))
            /\ UNCHANGED <<request_count, resp_text>>
       [] outcome = "timeout" ->
            IF ~IsFinalAttempt(attempt)
              THEN GenContinue(outcome, REQUEST_TIMEOUT, ERROR_BACKOFF)
              ELSE /\ GenReturn(outcome, REQUEST_TIMEOUT, None,
                                Some("Request timeout"))
                   /\ UNCHANGED <<request_count, resp_text>>
       [] outcome = "exception" ->
            IF ~IsFinalAttempt(attempt)
              THEN GenContinue(outcome, d, ERROR_BACKOFF)
              ELSE /\ GenReturn(outcome, d, None, Some(msg))
                   /\ UNCHANGED <<request_count, resp_text>>
  /\ UNCHANGED <<api_key, calls, count_before>>

\* the caller has taken the returned pair: the call is over
GenForget ==
  /\ gpc' = "idle"
  /\ attempt' = 0
  /\ ret' = <<None, None>>
  /\ events' = <<>>
  /\ resp_text' = <<>>
  /\ last_gap' = AgeCap

\* the (outcome, text, message, duration) tuples one post can come to
PostInputs ==
  ({"429", "503", "nocandidates"} \X {<<>>} \X {""} \X ReqDurations)
    \cup ({"ok"} \X RespTexts \X {""} \X ReqDurations)
    \cup ({"timeout"} \X {<<>>} \X {""} \X {REQUEST_TIMEOUT})
    \cup ({"exception"} \X {<<>>} \X ExcMessages \X ReqDurations)

\* ------------------------------------------------------------------------
\* A single caller driving one generator: call after call, with any time
\* between the return of one call and the start of the next
\* ------------------------------------------------------------------------
CallerDelays == {0, 3, 5}
ApiKeys == {None, Some("key")}

GenDriverCall ==
  /\ calls < MaxCalls
  /\ GenCall
  /\ UNCHANGED <<cacheVars, cacheObs, pipeVars, pipeObs>>
  /\ UNCHANGED <<streamVars, fnVars, storeVars, storeObs, runVars>>

GenDriverPost ==
  /\ ppc = "idle"
  /\ \E p \in PostInputs : GenPost(p[1], p[2], p[3], p[4])
  /\ UNCHANGED <<cacheVars, cacheObs, pipeVars, pipeObs>>
  /\ UNCHANGED <<streamVars, fnVars, storeVars, storeObs, runVars>>

\* the caller takes the returned pair
GenDriverTake ==
  /\ gpc = "returned"
  /\ GenForget
  /\ \E d \in CallerDelays :
       /\ since_request' = Adv(since_request, d)
       /\ since_attempt' = Adv(since_attempt, d)
  /\ UNCHANGED <<api_key, request_count, calls, count_before, cacheVars,
                 cacheObs, pipeVars, pipeObs>>
  /\ UNCHANGED <<streamVars, fnVars, storeVars, storeObs, runVars>>


\* ------------------------------------------------------------------------
\* SimpleEmbedder and InMemoryVectorStore.  Python salts the hash of a string
\* per process, so which tokens fall into the same dimension differs from
\* process to process: hash_of gives the dimension of each token.  A vector
\* is kept by its entries that can be non-zero and with its weights doubled
\* (2 per trigram, 1 per word); the list embed returns has the entries
\* w[d] / sqrt(m2).  A score is kept as num / sqrt(den2).
\* ------------------------------------------------------------------------
\* the k-th smallest element of a set of numbers
Kth(S, k) == CHOOSE i \in S : Cardinality({j \in S : j < i}) = k - 1

\* text.split(): the maximal runs of characters that are not white space,
\* in their order
split(text) ==
  LET starts == {i \in DOMAIN text :
                   ~IsSpace(text[i]) /\ (i = 1 \/ IsSpace(text[i - 1]))}
      ends == {i \in DOMAIN text :
                 ~IsSpace(text[i]) /\ (i = Len(text) \/ IsSpace(text[i + 1]))}
  IN [k \in 1..Cardinality(starts) |->
        SubSeq(text, Kth(starts, k), Kth(ends, k))]

\* the strings embed hashes for a text: the trigrams text[i:i+3] for i in
\* range(len(text)-2) and the words
TokensOf(text) ==
  LET t == strip(lower(text))
      words == split(t)
  IN {SubSeq(t, i, i + 2) : i \in 1..(Len(t) - 2)} \cup
       {words[k] : k \in DOMAIN words}

RECURSIVE SumOver(_, _)
SumOver(f, S) ==
  IF S = {} THEN 0
  ELSE LET d == CHOOSE x \in S : TRUE IN f[d] + SumOver(f, S \ {d})

\* the weights of a vector from the dimensions of the trigrams and of the
\* words, listed with their repetitions: 1.0 per trigram and 0.5 per word
Weights(tri_dims, word_dims) ==
  LET dims == {tri_dims[i] : i \in DOMAIN tri_dims} \cup
                {word_dims[k] : k \in DOMAIN word_dims}
  IN [d \in dims |->
        2 * Cardinality({i \in DOMAIN tri_dims : tri_dims[i] = d})
          + Cardinality({k \in DOMAIN word_dims : word_dims[k] = d})]

\* the vector with its magnitude: math.sqrt(sum(x*x for x in vector)) or 1.0
Normalized(w) ==
  LET sq == SumOver([d \in DOMAIN w |-> w[d] * w[d]], DOMAIN w) IN
  [w |-> w, m2 |-> IF sq = 0 THEN 1 ELSE sq]

\* the dimensions of the trigrams and of the words of a lowered, trimmed text
Hashed(h, t, words) ==
  Normalized(Weights([i \in 1..(Len(t) - 2) |-> h[SubSeq(t, i, i + 2)]],
                     [k \in DOMAIN words |-> h[words[k]]]))

\* a sequence that lists the elements of S once each
Enumerated(S) ==
  CHOOSE f \in [1..Cardinality(S) -> S] :
    \A i, j \in 1..Cardinality(S) : f[i] = f[j] => i = j

IndexIn(seq, x) == CHOOSE i \in DOMAIN seq : seq[i] = x

\* the texts SmartChunker.chunk_document can emit: non-empty and trimmed
LongText == [i \in 1..(PLACEHOLDER_CHARS + 3) |-> IF i <= PLACEHOLDER_CHARS
                                                    THEN "x" ELSE "y"]
ChunkTexts == {<<"k", "h">>, LongText}

\* the hash of a process in which no two tokens of the chunk texts share a
\* dimension
PipeTokens == UNION {TokensOf(t) : t \in ChunkTexts}
PipeHash ==
  LET ts == Enumerated(PipeTokens) IN
  [t \in PipeTokens |-> IndexIn(ts, t) - 1]

\* SimpleEmbedder.embed, worked out
Embedding(h, text) ==
  IF text = <<>> THEN [w |-> [d \in {} |-> 0], m2 |-> 1]
  ELSE Hashed(h, strip(lower(text)), split(strip(lower(text))))

\* the embeddings of the chunk texts under PipeHash, worked out once
PipeEmbeddings == [t \in ChunkTexts |-> Embedding(PipeHash, t)]

\* SimpleEmbedder.embed
embed(h, text) ==
  IF text \in ChunkTexts /\ h = PipeHash THEN PipeEmbeddings[text]
  ELSE Embedding(h, text)

\* SimpleEmbedder.similarity
similarity(vec1, vec2) ==
  LET both == DOMAIN vec1.w \cap DOMAIN vec2.w IN
  [num |-> SumOver([d \in both |-> vec1.w[d] * vec2.w[d]], both),
   den2 |-> vec1.m2 * vec2.m2]

\* a >= b on scores: no weight is negative
ScoreAtLeast(a, b) == a.num * a.num * b.den2 >= b.num * b.num * a.den2

\* the fields of a DocumentChunk the store reads and writes
StoreChunk(id, text) == [id |-> id, text |-> text, embedding |-> None]

\* InMemoryVectorStore.__init__
StoreNew ==
  /\ store_chunks = <<>>
  /\ index_built = FALSE
  /\ embedded = 0

\* InMemoryVectorStore.add_chunks: self.chunks afterwards
add_chunks(stored, h, new) ==
  stored \o [k \in DOMAIN new |->
               IF new[k].embedding = None
                 THEN [new[k] EXCEPT !.embedding = Some(embed(h, new[k].text))]
                 ELSE new[k]]

\* results.sort(key=lambda x: x[1], reverse=True): a stable sort, so results
\* of equal score keep their order
RECURSIVE InsertDesc(_, _)
InsertDesc(sorted, r) ==
  IF sorted = <<>> THEN <<r>>
  ELSE IF ScoreAtLeast(Head(sorted).score, r.score)
    THEN <<Head(sorted)>> \o InsertDesc(Tail(sorted), r)
    ELSE <<r>> \o sorted

RECURSIVE SortDesc(_, _, _)
SortDesc(results, k, sorted) ==
  IF k > Len(results) THEN sorted
  ELSE SortDesc(results, k + 1, InsertDesc(sorted, results[k]))

\* s[:n], n of either sign
Slice(s, n) ==
  IF n >= 0 THEN Prefix(s, n) ELSE SubSeq(s, 1, Max(0, Len(s) + n))

\* a search that leaves the results in the order of the store
search_unsorted(stored, h, query, top_k) ==
  IF stored = <<>> THEN <<>>
  ELSE LET query_embedding == embed(h, query)
           results == [k \in DOMAIN stored |->
                         [chunk |-> stored[k],
                          score |-> similarity(query_embedding,
                                               stored[k].embedding[1])]]
       IN Slice(results, top_k)

\* InMemoryVectorStore.search
search(stored, h, query, top_k) ==
  IF stored = <<>> THEN <<>>
  ELSE LET query_embedding == embed(h, query)
           results == [k \in DOMAIN stored |->
                         [chunk |-> stored[k],
                          score |-> similarity(query_embedding,
                                               stored[k].embedding[1])]]
       IN Slice(SortDesc(results, 1, <<>>), top_k)

\* ------------------------------------------------------------------------
\* SmartChunker.  A page marker, which the code recognises with the regular
\* expression "--- Page \d+ ---", is one element of a text.
\* ------------------------------------------------------------------------
PageMarkers == <<"--- Page 1 ---", "--- Page 2 ---", "--- Page 3 ---">>
IsMarker(c) == \E n \in DOMAIN PageMarkers : PageMarkers[n] = c
\* int(page_match.group(1))
PageOf(c) == CHOOSE n \in DOMAIN PageMarkers : PageMarkers[n] = c

\* the characters after which white space ends a sentence: the ASCII ones of
\* [.!?] and the two danda signs
Terminators == {".", "!", "?"}

\* page_positions[pos] = page, on a dict kept in insertion order
SetPage(pp, pos, page) ==
  IF \E k \in DOMAIN pp : pp[k].pos = pos
    THEN [k \in DOMAIN pp |->
            IF pp[k].pos = pos THEN [pos |-> pos, page |-> page] ELSE pp[k]]
    ELSE Append(pp, [pos |-> pos, page |-> page])

\* the loop over the parts re.split gives: the part before the first marker
\* and the part after each marker, empty ones too, are appended to full_text
\* and their starts are recorded with the page current at that point
RECURSIVE JoinParts(_, _, _, _)
JoinParts(text, i, full, pp) ==
  IF i > Len(text) THEN [full_text |-> full, page_positions |-> pp]
  ELSE IF IsMarker(text[i])
    THEN JoinParts(text, i + 1, full, SetPage(pp, Len(full), PageOf(text[i])))
    ELSE JoinParts(text, i + 1, Append(full, text[i]), pp)

\* the pieces re.split(r'(?<=[.!?])\s+', text) gives: a piece ends where
\* a run of white space follows a terminator, and the run is dropped
RECURSIVE SplitAfterTerminators(_, _, _)
SplitAfterTerminators(text, i, piece) ==
  IF i > Len(text) THEN <<piece>>
  ELSE IF IsSpace(text[i]) /\ i > 1 /\ text[i - 1] \in Terminators
    THEN LET rest == lstrip(SubSeq(text, i, Len(text))) IN
         <<piece>> \o SplitAfterTerminators(rest, 1, <<>>)
    ELSE SplitAfterTerminators(text, i + 1, Append(piece, text[i]))

\* SmartChunker._split_into_sentences
_split_into_sentences(text) ==
  LET pieces == SplitAfterTerminators(text, 1, <<>>)
      stripped == [k \in DOMAIN pieces |-> strip(pieces[k])]
  IN SelectSeq(stripped, LAMBDA s : s # <<>>)

\* the page of the last recorded position that is <= start, 1 without one
RECURSIVE PageAt(_, _, _, _)
PageAt(pp, k, start, page_num) ==
  IF k > Len(pp) THEN page_num
  ELSE PageAt(pp, k + 1, start,
              IF pp[k].pos <= start THEN pp[k].page ELSE page_num)

DocumentChunk(id, text, start_pos, end_pos, page_number) ==
  [id |-> id, text |-> text, start_pos |-> start_pos, end_pos |-> end_pos,
   page_number |-> page_number]

\* an append that does not look at current_chunk.strip()
Emit_unconditional(st, pp) ==
  [st EXCEPT
     !.chunks = Append(@, DocumentChunk(
                  st.chunk_id, strip(st.current_chunk), st.current_start,
                  st.current_start + Len(st.current_chunk),
                  PageAt(pp, 1, st.current_start, 1)))]

\* chunks.append(DocumentChunk(...)) when current_chunk.strip() is not empty
Emit(st, pp) ==
  IF strip(st.current_chunk) = <<>> THEN st
  ELSE [st EXCEPT
          !.chunks = Append(@, DocumentChunk(
                       st.chunk_id, strip(st.current_chunk), st.current_start,
                       st.current_start + Len(st.current_chunk),
                       PageAt(pp, 1, st.current_start, 1)))]

\* an iteration that cuts a sentence longer than chunk_size down to
\* chunk_size characters
AddSentence_cut_long(st, sentence, chunk_size, overlap, pp) ==
  LET kept == Prefix(sentence, Max(chunk_size, 0)) IN
  IF Len(st.current_chunk) + Len(kept) <= chunk_size
    THEN [st EXCEPT !.current_chunk = @ \o kept \o <<" ">>]
    ELSE LET closed == Emit(st, pp)
             cs == closed.chunks
             id == IF Len(cs) > Len(st.chunks) THEN st.chunk_id + 1
                   ELSE st.chunk_id
         IN IF cs # <<>> /\ overlap > 0
              THEN [chunks |-> cs,
                    chunk_id |-> id,
                    current_start |-> cs[Len(cs)].end_pos - overlap,
                    current_chunk |-> Suffix(cs[Len(cs)].text, overlap)
                                        \o <<" ">> \o kept \o <<" ">>]
              ELSE [chunks |-> cs,
                    chunk_id |-> id,
                    current_start |-> IF cs # <<>> THEN cs[Len(cs)].end_pos
                                      ELSE 0,
                    current_chunk |-> kept \o <<" ">>]

\* an iteration that compares the sentence alone with chunk_size
AddSentence_ignore_buffer(st, sentence, chunk_size, overlap, pp) ==
  IF Len(sentence) <= chunk_size
    THEN [st EXCEPT !.current_chunk = @ \o sentence \o <<" ">>]
    ELSE LET closed == Emit(st, pp)
             cs == closed.chunks
             id == IF Len(cs) > Len(st.chunks) THEN st.chunk_id + 1
                   ELSE st.chunk_id
         IN IF cs # <<>> /\ overlap > 0
              THEN [chunks |-> cs,
                    chunk_id |-> id,
                    current_start |-> cs[Len(cs)].end_pos - overlap,
                    current_chunk |-> Suffix(cs[Len(cs)].text, overlap)
                                        \o <<" ">> \o sentence \o <<" ">>]
              ELSE [chunks |-> cs,
                    chunk_id |-> id,
                    current_start |-> IF cs # <<>> THEN cs[Len(cs)].end_pos
                                      ELSE 0,
                    current_chunk |-> sentence \o <<" ">>]

\* an iteration that takes the overlap from the buffer as it stands, its
\* trailing space included
AddSentence_overlap_of_buffer(st, sentence, chunk_size, overlap, pp) ==
  IF Len(st.current_chunk) + Len(sentence) <= chunk_size
    THEN [st EXCEPT !.current_chunk = @ \o sentence \o <<" ">>]
    ELSE LET closed == Emit(st, pp)
             cs == closed.chunks
             id == IF Len(cs) > Len(st.chunks) THEN st.chunk_id + 1
                   ELSE st.chunk_id
         IN IF cs # <<>> /\ overlap > 0
              THEN [chunks |-> cs,
                    chunk_id |-> id,
                    current_start |-> cs[Len(cs)].end_pos - overlap,
                    current_chunk |-> Suffix(st.current_chunk, overlap)
                                        \o <<" ">> \o sentence \o <<" ">>]
              ELSE [chunks |-> cs,
                    chunk_id |-> id,
                    current_start |-> IF cs # <<>> THEN cs[Len(cs)].end_pos
                                      ELSE 0,
                    current_chunk |-> sentence \o <<" ">>]

\* one iteration of the loop over the sentences
AddSentence(st, sentence, chunk_size, overlap, pp) ==
  IF Len(st.current_chunk) + Len(sentence) <= chunk_size
    THEN [st EXCEPT !.current_chunk = @ \o sentence \o <<" ">>]
    ELSE LET closed == Emit(st, pp)
             cs == closed.chunks
             id == IF Len(cs) > Len(st.chunks) THEN st.chunk_id + 1
                   ELSE st.chunk_id
         IN IF cs # <<>> /\ overlap > 0
              THEN [chunks |-> cs,
                    chunk_id |-> id,
                    current_start |-> cs[Len(cs)].end_pos - overlap,
                    current_chunk |-> Suffix(cs[Len(cs)].text, overlap)
                                        \o <<" ">> \o sentence \o <<" ">>]
              ELSE [chunks |-> cs,
                    chunk_id |-> id,
                    current_start |-> IF cs # <<>> THEN cs[Len(cs)].end_pos
                                      ELSE 0,
                    current_chunk |-> sentence \o <<" ">>]

RECURSIVE ChunkLoop(_, _, _, _, _, _)
ChunkLoop(st, sentences, k, chunk_size, overlap, pp) ==
  IF k > Len(sentences) THEN st
  ELSE ChunkLoop(AddSentence(st, sentences[k], chunk_size, overlap, pp),
                 sentences, k + 1, chunk_size, overlap, pp)

\* not text.strip(), on a text with page markers
IsBlank(text) == \A i \in DOMAIN text : IsSpace(text[i])

\* SmartChunker.chunk_document
chunk_document(text, chunk_size, overlap) ==
  IF text = <<>> \/ IsBlank(text) THEN <<>>
  ELSE LET joined == JoinParts(text, 1, <<>>, <<[pos |-> 0, page |-> 1]>>)
           sentences == _split_into_sentences(joined.full_text)
           start == [chunks |-> <<>>, chunk_id |-> 0, current_start |-> 0,
                     current_chunk |-> <<>>]
           st == ChunkLoop(start, sentences, 1, chunk_size, overlap,
                           joined.page_positions)
       IN Emit(st, joined.page_positions).chunks

\* ------------------------------------------------------------------------
\* PromptTemplates and RAGTranslationPipeline
\* ------------------------------------------------------------------------
\* PromptTemplates.get_translation_prompt: the template chosen and what is
\* substituted into it
get_translation_prompt(text, context) ==
  IF TruthyText(context)
    THEN [template |-> "CONTEXT_PROMPT",
          context |-> Some(Prefix(context[1], CONTEXT_CHARS)), text |-> text]
    ELSE [template |-> "TRANSLATION_PROMPT", context |-> None, text |-> text]

NoPrompt == [template |-> "none", context |-> None, text |-> <<>>]

\* "[Translation failed: " and "...]"
PlaceholderOpen ==
  <<"[", "T", "r", "a", "n", "s", "l", "a", "t", "i", "o", "n", " ",
    "f", "a", "i", "l", "e", "d", ":", " ">>
PlaceholderClose == <<".", ".", ".", "]">>

\* f"[Translation failed: {chunk.text[:100]}...]"
Placeholder(text) ==
  PlaceholderOpen \o Prefix(text, PLACEHOLDER_CHARS) \o PlaceholderClose


\* an inner loop that goes down to 10 inclusive
RECURSIVE FindOverlap_down_to_10(_, _, _)
FindOverlap_down_to_10(res, chunk, size) ==
  IF size < 10 THEN 0
  ELSE IF lower(Suffix(res, size)) = lower(Prefix(chunk, size)) THEN size
  ELSE FindOverlap_down_to_10(res, chunk, size - 5)

\* the inner loop of _combine_chunks: the first overlap size of
\* range(size, 10, -5) that matches, 0 when none does
RECURSIVE FindOverlap(_, _, _)
FindOverlap(res, chunk, size) ==
  IF size <= 10 THEN 0
  ELSE IF lower(Suffix(res, size)) = lower(Prefix(chunk, size)) THEN size
  ELSE FindOverlap(res, chunk, size - 5)

\* the outer loop of _combine_chunks, from chunk number k on
RECURSIVE CombineFrom(_, _, _)
CombineFrom(res, cs, k) ==
  IF k > Len(cs) THEN res
  ELSE LET chunk == cs[k]
           size == FindOverlap(res, chunk, Min(50, Min(Len(res), Len(chunk))))
       IN CombineFrom(IF size > 0
                        THEN res \o SubSeq(chunk, size + 1, Len(chunk))
                        ELSE res \o <<" ">> \o chunk,
                      cs, k + 1)

\* RAGTranslationPipeline._combine_chunks
_combine_chunks(cs) ==
  IF cs = <<>> THEN <<>> ELSE strip(CombineFrom(cs[1], cs, 2))

RECURSIVE SeqsUpTo(_, _)
SeqsUpTo(S, n) ==
  IF n = 0 THEN {<<>>}
  ELSE LET shorter == SeqsUpTo(S, n - 1) IN
       shorter \cup {Append(q, x) : q \in shorter, x \in S}
Docs == SeqsUpTo(ChunkTexts, MaxChunks)

\* an entry of run_log:
\*   "progress" a b   progress_callback(a, b, status)
\*   "lookup" i f     cache.get(chunk.text) for chunk id i; f = 1 when the
\*                    cache held an entry for that text, else 0
\*   "generate" i 0   generator.generate(prompt) called for chunk id i
\*   "pause" i 0      time.sleep(0.3) after chunk id i
Lg(kind, a, b) == [kind |-> kind, a |-> a, b |-> b]

\* a callback that is handed the index the loop counts with
ChunkProgress_loop_index(i, total_chunks) == Lg("progress", i, total_chunks)

\* progress_callback(i + 1, total_chunks, ...) at the head of an iteration
ChunkProgress(i, total_chunks) == Lg("progress", i + 1, total_chunks)

\* a cache hit that appends nothing to the output
AppendCached_dropped(parts, cached) == parts

\* translated_chunks.append(cached)
AppendCached(parts, cached) == Append(parts, cached)

\* a zero-chunk return without the error entry
EmptyResult_unflagged == [text |-> <<>>, metadata |-> [chunks |-> 0]]

\* return "", {"error": "No text to translate", "chunks": 0}
EmptyResult ==
  [text |-> <<>>, metadata |-> [error |-> "No text to translate", chunks |-> 0]]

\* empty and white-space-only input texts
BlankTexts == {<<>>, <<" ">>, <<"\n", " ", "\t">>}

\* the chunk texts translate_document gets from the chunker for a text
Chunked(text) ==
  LET cs == chunk_document(text, CHUNK_SIZE, OVERLAP_SIZE) IN
  [k \in DOMAIN cs |-> cs[k].text]

\* no run has returned yet
NoResult == [text |-> <<>>, metadata |-> [pending |-> TRUE]]

\* the runs that share the pipeline instance at one time, and a run that is
\* not inside a cache operation
RaceRuns == {"run1", "run2"}
NoTask == [pc |-> "idle", key |-> None, val |-> None]

\* target_lang: the default "English" and another language
DefaultTarget == "English"
TargetLangs == {DefaultTarget, "Hindi"}

\* the observer after cache.set(text, ...) in a run that translates to lang:
\* the entry for the key of the text is replaced or added
StoredBy(stored, text, lang) ==
  {e \in stored : e.key # _hash_key(text)}
    \cup {[key |-> _hash_key(text), lang |-> lang]}

\* RAGTranslationPipeline.__init__, before any run
PipeNew ==
  /\ ppc = "idle"
  /\ runs = 0
  /\ work = 0
  /\ chunks = <<>>
  /\ idx = 0
  /\ translated_chunks = <<>>
  /\ errors = <<>>
  /\ cached_count = 0
  /\ previous_translation = Some(<<>>)
  /\ prompt = NoPrompt
  /\ result = NoResult
  /\ chunk_log = <<>>
  /\ run_log = <<>>
  /\ translated_parts = <<>>
  /\ yielded = <<>>
  /\ target_lang = DefaultTarget
  /\ stored_lang = {}
  /\ repeat_of = None
  /\ tasks = [t \in RaceRuns |-> NoTask]

\* an indexing step that adds to what the store holds, without clear()
Indexed_without_clear(doc, h) ==
  add_chunks(store_chunks, h, [k \in DOMAIN doc |-> StoreChunk(k - 1, doc[k])])

\* self.vector_store.clear(); self.vector_store.add_chunks(chunks): the
\* store afterwards
Indexed(doc, h) ==
  add_chunks(<<>>, h, [k \in DOMAIN doc |-> StoreChunk(k - 1, doc[k])])

\* the run that has just ended gave, for every chunk of a document of at
\* least one chunk, a translation that is not empty
TranslatedEveryChunk ==
  /\ ppc = "done"
  /\ chunks # <<>>
  /\ errors = <<>>
  /\ Len(translated_chunks) = Len(chunks)
  /\ \A k \in DOMAIN translated_chunks : TruthyText(translated_chunks[k])

\* translate_document, from its entry to the head of the chunk loop; any
\* time may have passed since the previous run
EnterRun(doc, d, lang) ==
  /\ ppc \in {"idle", "done", "raised"}
  /\ target_lang' = lang
  /\ repeat_of' = IF doc = chunks /\ TranslatedEveryChunk
                    THEN Some(result.text) ELSE None
  /\ runs' = runs + 1
  /\ work' = work + Len(doc)
  /\ chunks' = doc
  /\ idx' = 0
  /\ translated_chunks' = <<>>
  /\ errors' = <<>>
  /\ cached_count' = 0
  /\ previous_translation' = Some(<<>>)
  /\ chunk_log' = <<>>
  /\ prompt' = NoPrompt
  /\ IF Len(doc) = 0
       THEN /\ ppc' = "done"
            /\ result' = EmptyResult
            /\ run_log' = <<>>
       ELSE /\ ppc' = "loop"
            /\ result' = NoResult
            /\ run_log' = <<Lg("progress", 0, Len(doc))>>
  /\ since_request' = Adv(since_request, d)
  /\ since_attempt' = AgeCap
  /\ last_gap' = AgeCap
  /\ UNCHANGED <<api_key, request_count, gpc, attempt, ret, calls,
                 count_before, events, resp_text, cacheVars, cacheObs>>
  /\ IF Len(doc) = 0
       THEN UNCHANGED <<store_chunks, index_built, embedded>>
       ELSE /\ store_chunks' = Indexed(doc, hash_of)
            /\ index_built' = TRUE
            /\ embedded' = Len(doc)
  /\ UNCHANGED <<streamVars, fnVars, hash_of, stored_lang, tasks>>

\* a run of the MaxRuns runs, on MaxWork chunks in all, that are followed
StartRunTo(doc, d, lang) ==
  /\ runs < MaxRuns
  /\ work + Len(doc) <= MaxWork
  /\ EnterRun(doc, d, lang)

\* translate_document(text) with the default languages
StartRun(doc, d) == StartRunTo(doc, d, DefaultTarget)

\* one iteration of the chunk loop up to the cache hit or the generate call
ProcessChunk ==
  /\ ppc = "loop"
  /\ idx < Len(chunks)
  /\ LET text == chunks[idx + 1]
         r == get(cache, hits, misses, text)
         held == IF _hash_key(text) \in Keys(cache) THEN 1 ELSE 0
         seen == run_log \o <<ChunkProgress(idx, Len(chunks)),
                              Lg("lookup", idx, held)>>
     IN /\ cache' = r.cache
        /\ hits' = r.hits
        /\ misses' = r.misses
        /\ IF TruthyText(r.ret)
             THEN /\ translated_chunks' = AppendCached(translated_chunks, r.ret)
                  /\ run_log' = seen
                  /\ cached_count' = cached_count + 1
                  /\ previous_translation' = Some(Suffix(r.ret[1], CONTEXT_CHARS))
                  /\ chunk_log' = Append(chunk_log,
                                         [cached |-> TRUE, ret |-> <<r.ret, None>>])
                  /\ idx' = idx + 1
                  /\ UNCHANGED <<ppc, prompt, genVars, genObs>>
             ELSE /\ prompt' = get_translation_prompt(
                                 text, IF idx > 0 THEN previous_translation
                                                  ELSE None)
                  /\ GenCall
                  /\ ppc' = "generating"
                  /\ run_log' = Append(seen, Lg("generate", idx, 0))
                  /\ UNCHANGED <<translated_chunks, cached_count,
                                 previous_translation, chunk_log, idx>>
  /\ UNCHANGED <<max_size, cacheObs, runs, work, chunks, errors, result>>
  /\ UNCHANGED <<streamVars, fnVars, storeVars, storeObs, runVars>>

\* a translation longer than the context handed to the next chunk
LongResponse == [i \in 1..(CONTEXT_CHARS + 3) |-> IF i <= 3 THEN "a" ELSE "b"]

\* what the posts of a pipeline run come to: an overload that is retried, a
\* success with each text and an exception with each message, all of them
\* answered within 0.1 s; the other outcomes give the pipeline the same kinds
\* of (text, error) pairs
PipeInputs ==
  {p \in PostInputs : /\ p[1] \in {"503", "ok", "exception"}
                      /\ p[1] = "ok" => strip(p[2]) = <<>>
                      /\ p[4] = 1}
    \cup {<<"ok", LongResponse, "", 1>>}

\* one iteration of the retry loop of the generate call in progress
PipePost ==
  /\ ppc = "generating"
  /\ \E p \in PipeInputs : GenPost(p[1], p[2], p[3], p[4])
  /\ UNCHANGED <<cacheVars, cacheObs, pipeVars, pipeObs>>
  /\ UNCHANGED <<streamVars, fnVars, storeVars, storeObs, runVars>>

\* what translate_document appends for a chunk that went to the generator
RecordedOutput(text, translation, error) ==
  IF TruthyMsg(error) THEN Some(Placeholder(text)) ELSE translation

\* the rest of the iteration once generate has returned
RecordChunk ==
  /\ ppc = "generating"
  /\ gpc = "returned"
  /\ LET text == chunks[idx + 1]
         translation == ret[1]
         error == ret[2]
         last == ~(idx < Len(chunks) - 1)
     IN /\ chunk_log' = Append(chunk_log, [cached |-> FALSE, ret |-> ret])
        /\ IF TruthyMsg(error)
             THEN /\ errors' = Append(errors, [chunk_id |-> idx,
                                               error |-> error[1]])
                  /\ translated_chunks' =
                       Append(translated_chunks,
                              RecordedOutput(text, translation, error))
                  /\ UNCHANGED <<cache, previous_translation, stored_lang>>
             ELSE /\ translated_chunks' =
                       Append(translated_chunks,
                              RecordedOutput(text, translation, error))
                  /\ cache' = set(cache, max_size, text, translation)
                  /\ stored_lang' = StoredBy(stored_lang, text, target_lang)
                  /\ previous_translation' =
                       IF translation = None THEN previous_translation
                       ELSE Some(Suffix(translation[1], CONTEXT_CHARS))
                  /\ UNCHANGED errors
        \* translation[-200:] of None raises TypeError
        /\ IF ~TruthyMsg(error) /\ translation = None
             THEN /\ ppc' = "raised"
                  /\ UNCHANGED <<idx, since_request, since_attempt, run_log>>
             ELSE /\ ppc' = "loop"
                  /\ idx' = idx + 1
                  /\ run_log' = IF last THEN run_log
                                 ELSE Append(run_log, Lg("pause", idx, 0))
                  /\ since_request' =
                       Adv(since_request, IF last THEN 0 ELSE CHUNK_PAUSE)
                  /\ since_attempt' =
                       Adv(since_attempt, IF last THEN 0 ELSE CHUNK_PAUSE)
  /\ GenForget
  /\ prompt' = NoPrompt
  /\ UNCHANGED <<max_size, hits, misses, cacheObs, api_key, request_count,
                 calls, count_before, runs, work, chunks, cached_count, result>>
  /\ UNCHANGED <<streamVars, fnVars, storeVars, storeObs,
                 target_lang, repeat_of, tasks>>

Unwrap(cs) == [k \in DOMAIN cs |-> cs[k][1]]

\* metadata that counts the cached chunks apart from the successful ones
Metadata_cached_apart(total, errs, cachedn, stats, requests) ==
  [total_chunks |-> total,
   successful_chunks |-> total - Len(errs) - cachedn,
   failed_chunks |-> Len(errs),
   cached_chunks |-> cachedn,
   errors |-> IF errs # <<>> THEN Some(errs) ELSE None,
   cache_stats |-> stats,
   api_requests |-> requests]

\* the metadata dict translate_document returns
Metadata(total, errs, cachedn, stats, requests) ==
  [total_chunks |-> total,
   successful_chunks |-> total - Len(errs),
   failed_chunks |-> Len(errs),
   cached_chunks |-> cachedn,
   errors |-> IF errs # <<>> THEN Some(errs) ELSE None,
   cache_stats |-> stats,
   api_requests |-> requests]

\* pat in text
Contains(text, pat) ==
  \E i \in 1..(Len(text) - Len(pat) + 1) :
    text[i] = pat[1] /\ SubSeq(text, i, i + Len(pat) - 1) = pat

\* "[?]" and "Translation unavailable"
UncertainMark == <<"[", "?", "]">>
UnavailableMark ==
  <<"T", "r", "a", "n", "s", "l", "a", "t", "i", "o", "n", " ",
    "u", "n", "a", "v", "a", "i", "l", "a", "b", "l", "e">>

\* TranslationQuality.detect_issues
detect_issues(translated) ==
  (IF Contains(translated, UncertainMark)
     THEN <<"Contains uncertain translations">> ELSE <<>>)
  \o (IF Len(translated) < SHORT_TEXT
        THEN <<"Translation too short">> ELSE <<>>)
  \o (IF Contains(translated, UnavailableMark)
        THEN <<"Translation failed for some chunks">> ELSE <<>>)

\* "quality_issues": issues if issues else None
QualityIssues(final_text) ==
  LET issues == detect_issues(final_text) IN
  IF issues # <<>> THEN Some(issues) ELSE None

\* translate_document after the chunk loop
FinishRun ==
  /\ ppc = "loop"
  /\ idx = Len(chunks)
  /\ ppc' = "done"
  /\ result' =
       LET final_text == _combine_chunks(Unwrap(translated_chunks)) IN
       [text |-> final_text,
        metadata |-> [quality_issues |-> QualityIssues(final_text)]
                       @@ Metadata(Len(chunks), errors, cached_count,
                                   get_stats(cache, hits, misses),
                                   request_count)]
  /\ run_log' = Append(run_log, Lg("progress", Len(chunks), Len(chunks)))
  /\ UNCHANGED <<cacheVars, cacheObs, genVars, genObs, runs, work, chunks, idx,
                 translated_chunks, errors, cached_count,
                 previous_translation, prompt, chunk_log>>
  /\ UNCHANGED <<streamVars, fnVars, storeVars, storeObs, runVars>>

\* ------------------------------------------------------------------------
\* RAGTranslationPipeline.translate_streaming, a Python generator: each
\* action is what one next() of the consumer runs, up to the following
\* yield (the generate call in between takes its own steps).  Positions:
\*   "at_start", "at_progress", "at_chunk", "at_complete", "at_error"
\*                      suspended at the yield of an event of that kind
\*   "generating"       inside generator.generate
\*   "done"             exhausted;  "raised"  ended by an exception
\*   "abandoned"        dropped by the consumer while suspended at a yield
\* translated_chunks is kept as translate_document would have built it from
\* the same cache results and the same generate results.
\* ------------------------------------------------------------------------
\* cached[:100] + "..." if len(cached) > 100 else cached
Preview(t) ==
  IF Len(t) > PLACEHOLDER_CHARS
    THEN Prefix(t, PLACEHOLDER_CHARS) \o <<".", ".", ".">>
    ELSE t

\* what translate_streaming appends for a chunk that went to the generator
StreamedOutput(text, translation, error) ==
  IF TruthyMsg(error) THEN Some(text) ELSE translation

\* the call and the first next(): chunk the document, yield start or error
StreamStart(doc, d) ==
  /\ ppc \in {"idle", "done", "raised", "abandoned"}
  /\ target_lang' = DefaultTarget
  /\ repeat_of' = None
  /\ runs < MaxRuns
  /\ work + Len(doc) <= MaxWork
  /\ runs' = runs + 1
  /\ work' = work + Len(doc)
  /\ chunks' = doc
  /\ idx' = 0
  /\ translated_parts' = <<>>
  /\ translated_chunks' = <<>>
  /\ previous_translation' = Some(<<>>)
  /\ chunk_log' = <<>>
  /\ run_log' = <<>>
  /\ prompt' = NoPrompt
  /\ IF Len(doc) = 0
       THEN /\ ppc' = "at_error"
            /\ yielded' = <<[type |-> "error",
                             message |-> "No text to translate"]>>
       ELSE /\ ppc' = "at_start"
            /\ yielded' = <<[type |-> "start", total_chunks |-> Len(doc)]>>
  /\ since_request' = Adv(since_request, d)
  /\ since_attempt' = AgeCap
  /\ last_gap' = AgeCap
  /\ UNCHANGED <<api_key, request_count, gpc, attempt, ret, calls,
                 count_before, events, resp_text, cacheVars, cacheObs,
                 errors, cached_count, result, fnVars,
                 storeVars, storeObs,
                 stored_lang, tasks>>

\* a next() that looks the next chunk up in the cache before it yields the
\* progress event of that chunk
StreamAdvance_lookup_first ==
  /\ ppc \in {"at_start", "at_chunk"}
  /\ LET slept == ppc = "at_chunk" /\ ~chunk_log[Len(chunk_log)].cached
         pause == IF slept THEN CHUNK_PAUSE ELSE 0
         next == IF ppc = "at_chunk" THEN idx + 1 ELSE idx
         log == IF slept THEN Append(run_log, Lg("pause", idx, 0)) ELSE run_log
     IN /\ idx' = next
        /\ since_request' = Adv(since_request, pause)
        /\ since_attempt' = Adv(since_attempt, pause)
        /\ IF next < Len(chunks)
             THEN LET r == get(cache, hits, misses, chunks[next + 1]) IN
                  /\ cache' = r.cache
                  /\ hits' = r.hits
                  /\ misses' = r.misses
                  /\ run_log' = Append(log, Lg("lookup", next, 0))
                  /\ ppc' = "at_progress"
                  /\ yielded' = Append(yielded,
                                       [type |-> "progress", current |-> next + 1,
                                        total |-> Len(chunks)])
             ELSE /\ ppc' = "at_complete"
                  /\ run_log' = log
                  /\ UNCHANGED <<cache, hits, misses>>
                  /\ yielded' =
                       Append(yielded,
                              [type |-> "complete",
                               translated_text |->
                                 _combine_chunks(Unwrap(translated_parts)),
                               cache_stats |-> get_stats(cache, hits, misses)])
  /\ UNCHANGED <<max_size, cacheObs, api_key, request_count, gpc, attempt, ret,
                 calls, count_before, events, resp_text, last_gap, runs, work,
                 chunks, translated_chunks, errors, cached_count,
                 previous_translation, prompt, result, chunk_log,
                 translated_parts, fnVars, hash_of, runVars>>
  /\ IF ppc = "at_start"
       THEN /\ store_chunks' = Indexed(chunks, hash_of)
            /\ index_built' = TRUE
            /\ embedded' = Len(chunks)
       ELSE UNCHANGED <<store_chunks, index_built, embedded>>

\* next() at the start event or at a chunk event: index the chunks after
\* the start event, finish the iteration after a chunk event
\* (time.sleep(0.3) unless the chunk was cached), then yield the progress
\* event of the next chunk or, after the last one, the complete event
StreamAdvance ==
  /\ ppc \in {"at_start", "at_chunk"}
  /\ LET slept == ppc = "at_chunk" /\ ~chunk_log[Len(chunk_log)].cached
         pause == IF slept THEN CHUNK_PAUSE ELSE 0
         next == IF ppc = "at_chunk" THEN idx + 1 ELSE idx
         log == IF slept THEN Append(run_log, Lg("pause", idx, 0)) ELSE run_log
     IN /\ idx' = next
        /\ run_log' = log
        /\ since_request' = Adv(since_request, pause)
        /\ since_attempt' = Adv(since_attempt, pause)
        /\ IF next < Len(chunks)
             THEN /\ ppc' = "at_progress"
                  /\ yielded' = Append(yielded,
                                       [type |-> "progress", current |-> next + 1,
                                        total |-> Len(chunks)])
             ELSE /\ ppc' = "at_complete"
                  /\ yielded' =
                       Append(yielded,
                              [type |-> "complete",
                               translated_text |->
                                 _combine_chunks(Unwrap(translated_parts)),
                               cache_stats |-> get_stats(cache, hits, misses)])
  /\ UNCHANGED <<cacheVars, cacheObs, api_key, request_count, gpc, attempt, ret,
                 calls, count_before, events, resp_text, last_gap, runs, work,
                 chunks, translated_chunks, errors, cached_count,
                 previous_translation, prompt, result, chunk_log,
                 translated_parts, fnVars, hash_of, runVars>>
  /\ IF ppc = "at_start"
       THEN /\ store_chunks' = Indexed(chunks, hash_of)
            /\ index_built' = TRUE
            /\ embedded' = Len(chunks)
       ELSE UNCHANGED <<store_chunks, index_built, embedded>>

\* next() at a progress event: the cache lookup, then the chunk_complete
\* event of a cached chunk or the generate call
StreamChunk ==
  /\ ppc = "at_progress"
  /\ LET text == chunks[idx + 1]
         r == get(cache, hits, misses, text)
         held == IF _hash_key(text) \in Keys(cache) THEN 1 ELSE 0
         seen == Append(run_log, Lg("lookup", idx, held))
     IN /\ cache' = r.cache
        /\ hits' = r.hits
        /\ misses' = r.misses
        /\ IF TruthyText(r.ret)
             THEN /\ translated_parts' = Append(translated_parts, r.ret)
                  /\ translated_chunks' = AppendCached(translated_chunks, r.ret)
                  /\ yielded' = Append(yielded,
                                       [type |-> "chunk_complete",
                                        chunk_id |-> idx, cached |-> TRUE,
                                        preview |-> Preview(r.ret[1])])
                  /\ previous_translation' = Some(Suffix(r.ret[1], CONTEXT_CHARS))
                  /\ chunk_log' = Append(chunk_log,
                                         [cached |-> TRUE, ret |-> <<r.ret, None>>])
                  /\ run_log' = seen
                  /\ ppc' = "at_chunk"
                  /\ UNCHANGED <<prompt, genVars, genObs>>
             ELSE /\ prompt' = get_translation_prompt(
                                 text, IF idx > 0 THEN previous_translation
                                                  ELSE None)
                  /\ GenCall
                  /\ ppc' = "generating"
                  /\ run_log' = Append(seen, Lg("generate", idx, 0))
                  /\ UNCHANGED <<translated_parts, translated_chunks, yielded,
                                 previous_translation, chunk_log>>
  /\ UNCHANGED <<max_size, cacheObs, runs, work, chunks, idx, errors,
                 cached_count, result, fnVars,
                 storeVars, storeObs, runVars>>

\* the same next() once generate has returned, up to the chunk event
StreamRecord ==
  /\ ppc = "generating"
  /\ gpc = "returned"
  /\ LET text == chunks[idx + 1]
         translation == ret[1]
         error == ret[2]
     IN /\ chunk_log' = Append(chunk_log, [cached |-> FALSE, ret |-> ret])
        /\ translated_parts' =
             Append(translated_parts, StreamedOutput(text, translation, error))
        /\ translated_chunks' =
             Append(translated_chunks, RecordedOutput(text, translation, error))
        /\ IF TruthyMsg(error)
             THEN /\ yielded' = Append(yielded,
                                       [type |-> "chunk_error", chunk_id |-> idx,
                                        error |-> error[1]])
                  /\ ppc' = "at_chunk"
                  /\ UNCHANGED <<cache, previous_translation, stored_lang>>
             ELSE /\ cache' = set(cache, max_size, text, translation)
                  /\ stored_lang' = StoredBy(stored_lang, text, target_lang)
                  \* translation[-200:] of None raises TypeError
                  /\ IF translation = None
                       THEN /\ ppc' = "raised"
                            /\ UNCHANGED <<yielded, previous_translation>>
                       ELSE /\ ppc' = "at_chunk"
                            /\ previous_translation' =
                                 Some(Suffix(translation[1], CONTEXT_CHARS))
                            /\ yielded' =
                                 Append(yielded,
                                        [type |-> "chunk_complete",
                                         chunk_id |-> idx, cached |-> FALSE,
                                         preview |-> Preview(translation[1])])
  /\ GenForget
  /\ prompt' = NoPrompt
  /\ UNCHANGED <<max_size, hits, misses, cacheObs, api_key, request_count,
                 since_request, since_attempt, calls, count_before, runs, work,
                 chunks, idx, errors, cached_count, result, run_log, fnVars,
                 storeVars, storeObs,
                 target_lang, repeat_of, tasks>>

\* next() at the complete or the error event: the generator returns
StreamEnd ==
  /\ ppc \in {"at_complete", "at_error"}
  /\ ppc' = "done"
  /\ UNCHANGED <<cacheVars, cacheObs, genVars, genObs, runs, work, chunks, idx,
                 translated_chunks, errors, cached_count, previous_translation,
                 prompt, result, pipeObs, streamVars, fnVars,
                 storeVars, storeObs, runVars>>

\* the consumer stops pulling and drops the generator, which is suspended
\* at a yield: nothing of the generator runs any more, and its frame and the
\* events it has yielded are gone
StreamAbandon ==
  /\ ppc \in {"at_start", "at_progress", "at_chunk", "at_complete", "at_error"}
  /\ ppc' = "abandoned"
  /\ translated_parts' = <<>>
  /\ translated_chunks' = <<>>
  /\ previous_translation' = Some(<<>>)
  /\ chunk_log' = <<>>
  /\ yielded' = <<>>
  /\ UNCHANGED <<cacheVars, cacheObs, genVars, genObs, runs, work, chunks, idx,
                 errors, cached_count, prompt, result, run_log, fnVars,
                 storeVars, storeObs, runVars>>

\* ------------------------------------------------------------------------
\* Functions called on their own
\* ------------------------------------------------------------------------
\* no call is being looked at
FnNew ==
  /\ arg = None
  /\ out = None

Rep(c, n) == [i \in 1..n |-> c]

\* the text two adjacent chunks share: n characters, all the same or none
\* like the first, in the case of the left or of the right chunk
Shared(kind, n, upper) ==
  [i \in 1..n |->
     IF kind = "uniform" \/ i > 1 THEN (IF upper THEN "K" ELSE "k")
     ELSE (IF upper THEN "T" ELSE "t")]

PadLens == {0, 2, 5, 40}

\* pairs of translated chunks: the first ends with and the second begins
\* with the shared text, apart from the case of the letters
CombineInputs ==
  {<<Rep("a", p) \o Shared(kind, n, FALSE), Shared(kind, n, upper) \o Rep("b", q)>> :
     p \in PadLens, q \in PadLens, n \in 0..MaxShared,
     kind \in {"uniform", "headed"}, upper \in BOOLEAN}

\* what a document is put together from: sentences with the white space
\* after them, a letter, a terminator, a space and page markers
Pieces ==
  {<<"a", ".", " ">>, <<"b", "b", "?", "\n">>, <<"c">>, <<".">>, <<" ">>,
   <<PageMarkers[1]>>, <<PageMarkers[2]>>}

RECURSIVE Concat(_)
Concat(ss) == IF ss = <<>> THEN <<>> ELSE Head(ss) \o Concat(Tail(ss))

DocTexts == {Concat(ps) : ps \in SeqsUpTo(Pieces, MaxPieces)}
ChunkSizes == {0, 3, 6}
Overlaps == {-1, 0, 2, 10}

\* SmartChunker.chunk_document(text, chunk_size, overlap)
ChunkCall ==
  /\ out = None
  /\ out' = Some(chunk_document(arg.text, arg.chunk_size, arg.overlap))
  /\ UNCHANGED <<arg, cacheVars, cacheObs, genVars, genObs, pipeVars, pipeObs,
                 streamVars, storeVars, storeObs, runVars>>

\* self._combine_chunks(chunks)
CombineCall ==
  /\ out = None
  /\ out' = Some(_combine_chunks(arg))
  /\ UNCHANGED <<arg, cacheVars, cacheObs, genVars, genObs, pipeVars, pipeObs,
                 streamVars, storeVars, storeObs, runVars>>

\* ------------------------------------------------------------------------
\* A vector store used on its own
\* ------------------------------------------------------------------------
\* texts of chunks and of queries: "to", "T o", "o" and ""
StoreTexts == {<<"t", "o">>, <<"T", " ", "o">>, <<"o">>, <<>>}
StoreTokens == UNION {TokensOf(t) : t \in StoreTexts}
TopKs == -1..(MaxStored + 1)

\* every way the tokens can share dimensions, the dimensions numbered in
\* the order of their first token
Collisions ==
  LET ts == Enumerated(StoreTokens)
      n == Len(ts)
      numbered == {g \in [1..n -> 0..(Min(n, EMBED_DIM) - 1)] :
                     \A i \in 1..n :
                       g[i] > 0 => \E j \in 1..(i - 1) : g[j] = g[i] - 1}
  IN {[t \in StoreTokens |-> g[IndexIn(ts, t)]] : g \in numbered}

\* vector_store.add_chunks(chunks) with the chunks of a document
StoreAdd(texts) ==
  /\ Len(store_chunks) + Len(texts) <= MaxStored
  /\ store_chunks' = add_chunks(store_chunks, hash_of,
                                [k \in DOMAIN texts |->
                                   StoreChunk(k - 1, texts[k])])
  /\ index_built' = TRUE
  /\ embedded' = Len(texts)
  /\ arg' = None
  /\ out' = None
  /\ UNCHANGED <<runVars, hash_of, cacheVars, cacheObs, genVars, genObs, pipeVars,
                 pipeObs, streamVars>>

\* vector_store.search(query, top_k), one search between two changes of the
\* store
StoreSearch(query, top_k) ==
  /\ out = None
  /\ arg' = [query |-> query, top_k |-> top_k]
  /\ out' = Some(search(store_chunks, hash_of, query, top_k))
  /\ embedded' = IF store_chunks = <<>> THEN 0 ELSE 1
  /\ UNCHANGED <<runVars, storeVars, cacheVars, cacheObs, genVars, genObs, pipeVars,
                 pipeObs, streamVars>>

\* vector_store.clear()
StoreClear ==
  /\ store_chunks' = <<>>
  /\ index_built' = FALSE
  /\ embedded' = 0
  /\ arg' = None
  /\ out' = None
  /\ UNCHANGED <<runVars, hash_of, cacheVars, cacheObs, genVars, genObs, pipeVars,
                 pipeObs, streamVars>>

\* ------------------------------------------------------------------------
\* Specifications
\* ------------------------------------------------------------------------
CacheInit ==
  /\ \E cap \in 1..MaxCapacity : CacheNew(cap)
  /\ GenNew(None)
  /\ PipeNew
  /\ FnNew
  /\ StoreNew
  /\ hash_of = PipeHash

CacheNext ==
  \/ \E t \in CacheTexts : CacheGet(t)
  \/ \E t \in CacheTexts, v \in CacheValues : CacheSet(t, v)

SpecCache == CacheInit /\ [][CacheNext]_vars

GenInit ==
  /\ \E key \in ApiKeys : GenNew(key)
  /\ CacheNew(CACHE_SIZE)
  /\ PipeNew
  /\ FnNew
  /\ StoreNew
  /\ hash_of = PipeHash

GenNext == GenDriverCall \/ GenDriverPost \/ GenDriverTake

SpecGen == GenInit /\ [][GenNext]_vars

\* the thread that runs generate goes on running it
FairSpecGen == SpecGen /\ WF_vars(GenDriverPost)

\* one pipeline instance, as get_rag_translator builds it, and the runs of
\* translate_document made on it one after the other
Init ==
  /\ \E key \in ApiKeys : GenNew(key)
  /\ CacheNew(CACHE_SIZE)
  /\ PipeNew
  /\ FnNew
  /\ StoreNew
  /\ hash_of = PipeHash

Next ==
  \/ \E doc \in Docs \cup {Chunked(t) : t \in BlankTexts}, d \in CallerDelays :
       StartRun(doc, d)
  \/ ProcessChunk
  \/ PipePost
  \/ RecordChunk
  \/ FinishRun

Spec == Init /\ [][Next]_vars

\* the same pipeline instance, as translate_with_rag shares it, asked for
\* one-chunk documents in either target language
LangDocs == {<<t>> : t \in ChunkTexts}
LangNext ==
  \/ \E doc \in LangDocs, d \in CallerDelays, lang \in TargetLangs :
       StartRunTo(doc, d, lang)
  \/ ProcessChunk
  \/ PipePost
  \/ RecordChunk
  \/ FinishRun

SpecLang == Init /\ [][LangNext]_vars

\* the same pipeline instance with a cache that its runs can fill: the
\* capacity CACHE_SIZE is scaled down to 1..MaxCapacity, and the runs are
\* MaxFillRuns runs on MaxFillWork chunks in all, without an idle caller
FillInit ==
  /\ GenNew(Some("key"))
  /\ \E cap \in 1..MaxCapacity : CacheNew(cap)
  /\ PipeNew
  /\ FnNew
  /\ StoreNew
  /\ hash_of = PipeHash

FillNext ==
  \/ \E doc \in Docs \ {<<>>} :
       /\ runs < MaxFillRuns
       /\ work + Len(doc) <= MaxFillWork
       /\ EnterRun(doc, 0, DefaultTarget)
  \/ ProcessChunk
  \/ PipePost
  \/ RecordChunk
  \/ FinishRun

SpecFill == FillInit /\ [][FillNext]_vars

\* ------------------------------------------------------------------------
\* Two runs at one time on the pipeline instance that get_rag_translator
\* shares: the statements of TranslationCache.get and set of one run
\* interleave with those of the other.  Positions of a run:
\*   "idle"        outside the cache (chunking, generate, the pause)
\*   "promote"     in get, after `key in self.cache` was true
\*   "return"      in get, after move_to_end
\*   "set_check"   at the head of set, after a miss and generate
\*   "set_evict"   in set, after the size test was true
\*   "set_insert"  in set, before self.cache[key] = translation
\*   "raised"      ended by a KeyError
\* ------------------------------------------------------------------------
\* cache.get(chunk.text) up to the membership test; after a miss the run
\* calls generate and comes to cache.set with the translation
RaceGet(t, text, translation) ==
  /\ tasks[t].pc = "idle"
  /\ opclock < MaxOps
  /\ opclock' = opclock + 1
  /\ IF _hash_key(text) \in Keys(cache)
       THEN /\ hits' = hits + 1
            /\ tasks' = [tasks EXCEPT ![t] = [pc |-> "promote",
                                              key |-> Some(_hash_key(text)),
                                              val |-> None]]
            /\ UNCHANGED misses
       ELSE /\ misses' = misses + 1
            /\ tasks' = [tasks EXCEPT ![t] = [pc |-> "set_check",
                                              key |-> Some(_hash_key(text)),
                                              val |-> translation]]
            /\ UNCHANGED hits
  /\ UNCHANGED <<cache, max_size, stamp, lastOp, lookups>>
  /\ UNCHANGED <<genVars, genObs, pipeVars, pipeObs, streamVars, fnVars,
                 storeVars, storeObs, target_lang, stored_lang, repeat_of>>

\* return self.cache[key]: KeyError when the other run has evicted the key
\* since move_to_end
RaceReturn(t) ==
  /\ tasks[t].pc = "return"
  /\ tasks' = [tasks EXCEPT ![t] = IF tasks[t].key[1] \in Keys(cache)
                                     THEN NoTask
                                     ELSE [@ EXCEPT !.pc = "raised"]]
  /\ UNCHANGED <<cacheVars, cacheObs>>
  /\ UNCHANGED <<genVars, genObs, pipeVars, pipeObs, streamVars, fnVars,
                 storeVars, storeObs, target_lang, stored_lang, repeat_of>>

\* self.cache.move_to_end(key): KeyError when the other run has evicted the
\* key since the membership test
RacePromote(t) ==
  /\ tasks[t].pc = "promote"
  /\ IF tasks[t].key[1] \in Keys(cache)
       THEN /\ cache' = move_to_end(cache, tasks[t].key[1])
            /\ tasks' = [tasks EXCEPT ![t].pc = "return"]
       ELSE /\ tasks' = [tasks EXCEPT ![t].pc = "raised"]
            /\ UNCHANGED cache
  /\ UNCHANGED <<max_size, hits, misses, cacheObs>>
  /\ UNCHANGED <<genVars, genObs, pipeVars, pipeObs, streamVars, fnVars,
                 storeVars, storeObs, target_lang, stored_lang, repeat_of>>

\* if len(self.cache) >= self.max_size
RaceCheck(t) ==
  /\ tasks[t].pc = "set_check"
  /\ tasks' = [tasks EXCEPT ![t].pc = IF Len(cache) >= max_size
                                        THEN "set_evict" ELSE "set_insert"]
  /\ UNCHANGED <<cacheVars, cacheObs>>
  /\ UNCHANGED <<genVars, genObs, pipeVars, pipeObs, streamVars, fnVars,
                 storeVars, storeObs, target_lang, stored_lang, repeat_of>>

\* self.cache.popitem(last=False): KeyError on a cache the other run has
\* emptied in between
RaceEvict(t) ==
  /\ tasks[t].pc = "set_evict"
  /\ IF cache # <<>>
       THEN /\ cache' = popitem_first(cache)
            /\ tasks' = [tasks EXCEPT ![t].pc = "set_insert"]
       ELSE /\ tasks' = [tasks EXCEPT ![t].pc = "raised"]
            /\ UNCHANGED cache
  /\ UNCHANGED <<max_size, hits, misses, cacheObs>>
  /\ UNCHANGED <<genVars, genObs, pipeVars, pipeObs, streamVars, fnVars,
                 storeVars, storeObs, target_lang, stored_lang, repeat_of>>

\* self.cache[key] = translation
RaceInsert(t) ==
  /\ tasks[t].pc = "set_insert"
  /\ cache' = setitem(cache, tasks[t].key[1], tasks[t].val)
  /\ tasks' = [tasks EXCEPT ![t] = NoTask]
  /\ UNCHANGED <<max_size, hits, misses, cacheObs>>
  /\ UNCHANGED <<genVars, genObs, pipeVars, pipeObs, streamVars, fnVars,
                 storeVars, storeObs, target_lang, stored_lang, repeat_of>>

RaceInit ==
  /\ GenNew(Some("key"))
  /\ \E cap \in 1..MaxCapacity : CacheNew(cap)
  /\ PipeNew
  /\ FnNew
  /\ StoreNew
  /\ hash_of = PipeHash

RaceNext ==
  \/ \E t \in RaceRuns, text \in CacheTexts, v \in CacheValues :
       RaceGet(t, text, v)
  \/ \E t \in RaceRuns : RacePromote(t)
  \/ \E t \in RaceRuns : RaceReturn(t)
  \/ \E t \in RaceRuns : RaceCheck(t)
  \/ \E t \in RaceRuns : RaceEvict(t)
  \/ \E t \in RaceRuns : RaceInsert(t)

SpecRace == RaceInit /\ [][RaceNext]_vars

\* the same pipeline instance driven through translate_streaming, each
\* sequence consumed to its end or dropped at a yield before the next call
StreamNext ==
  \/ \E doc \in Docs \cup {Chunked(t) : t \in BlankTexts}, d \in CallerDelays :
       StreamStart(doc, d)
  \/ StreamAdvance
  \/ StreamChunk
  \/ PipePost
  \/ StreamRecord
  \/ StreamEnd
  \/ StreamAbandon

SpecStream == Init /\ [][StreamNext]_vars

\* _combine_chunks called on a pair of chunks
CombineInit ==
  /\ arg \in CombineInputs
  /\ out = None
  /\ GenNew(None)
  /\ CacheNew(CACHE_SIZE)
  /\ PipeNew
  /\ StoreNew
  /\ hash_of = PipeHash

CombineNext == CombineCall

SpecCombine == CombineInit /\ [][CombineNext]_vars

\* chunk_document called on a text
ChunkInit ==
  /\ arg \in [text : DocTexts, chunk_size : ChunkSizes, overlap : Overlaps]
  /\ out = None
  /\ GenNew(None)
  /\ CacheNew(CACHE_SIZE)
  /\ PipeNew
  /\ StoreNew
  /\ hash_of = PipeHash

ChunkNext == ChunkCall

SpecChunk == ChunkInit /\ [][ChunkNext]_vars

\* a vector store and its embedder in a process of any hash salt
StoreInit ==
  /\ hash_of \in Collisions
  /\ StoreNew
  /\ FnNew
  /\ GenNew(None)
  /\ CacheNew(CACHE_SIZE)
  /\ PipeNew

StoreNext ==
  \/ \E texts \in SeqsUpTo(StoreTexts, MaxStored) : StoreAdd(texts)
  \/ \E query \in StoreTexts, top_k \in TopKs : StoreSearch(query, top_k)
  \/ StoreClear

SpecStore == StoreInit /\ [][StoreNext]_vars

\* ------------------------------------------------------------------------
\* Properties of the cache
\* ------------------------------------------------------------------------
\* C8: with capacity c >= 1, after any sequence of get and set operations
\* by a single caller the cache stores at most c entries.
C8_SizeAtMostCapacity == Len(cache) <= max_size

\* a set has just been performed on a cache that was full
C8_Witness ==
  /\ lastOp.op = "set"
  /\ lastOp.full
  /\ Len(cache) = max_size

\* C9: a set that inserts an absent key into a full cache evicts exactly
\* one entry, the least recently used one, recency being the later of the
\* entry's insertion and its most recent get hit.
C9_EvictsLeastRecentlyUsed ==
  (lastOp.op = "set" /\ ~lastOp.present /\ lastOp.full) =>
    /\ lastOp.before \ Keys(cache) = {lastOp.lru[1]}
    /\ Keys(cache) = (lastOp.before \ {lastOp.lru[1]}) \cup {lastOp.key[1]}
    /\ Len(cache) = Cardinality(lastOp.before)

\* an absent key was inserted into a full cache of two entries after a get
\* hit had promoted the older entry: the evicted one is the later insertion
C9_Witness ==
  /\ lastOp.op = "set"
  /\ ~lastOp.present
  /\ lastOp.full
  /\ max_size = 2
  /\ lookups = <<"hit">>
  /\ \E k \in Keys(cache) : stamp[k] = 3 /\ lastOp.lru[1] # k
                           /\ \A k2 \in lastOp.before : stamp[k2] >= 2 \/ k2 = lastOp.lru[1]

AllMisses(log) == \A i \in DOMAIN log : log[i] = "miss"

C10_Step ==
  (opclock' = opclock + 1) =>
    LET found == lastOp'.key[1] \in Keys(cache) IN
    /\ (lastOp'.op = "get" /\ found) => (hits' = hits + 1 /\ misses' = misses)
    /\ (lastOp'.op = "get" /\ ~found) =>
          (misses' = misses + 1 /\ hits' = hits /\ cache' = cache)
    /\ (lastOp'.op = "set") => (hits' = hits /\ misses' = misses)

C10_Stats ==
  LET s == get_stats(cache, hits, misses)
      n == Len(lookups) - 1
  IN /\ s.hits = hits /\ s.misses = misses
     /\ (hits + misses = 0) => s.hit_rate.num = 0
     /\ (hits + misses > 0) =>
          s.hit_rate.num * (hits + misses) = hits * s.hit_rate.den
     /\ (lookups # <<>> /\ lookups[Len(lookups)] = "hit"
          /\ AllMisses(SubSeq(lookups, 1, n))) =>
          s.hit_rate.num * (n + 1) = s.hit_rate.den

\* C10: a get hit adds 1 to hits only, a get miss adds 1 to misses only and
\* leaves the entries alone, set changes neither counter, and get_stats
\* reports hit_rate = hits / (hits + misses), 0 before any lookup, hence
\* 1/(N+1) after N misses followed by one hit.
C10_CountersAndHitRate == [][C10_Step]_vars /\ []C10_Stats

\* two misses followed by one hit
C10_Witness ==
  /\ lookups = <<"miss", "miss", "hit">>
  /\ get_stats(cache, hits, misses).hit_rate = [num |-> 1, den |-> 3]

\* ------------------------------------------------------------------------
\* Properties of the generator
\* ------------------------------------------------------------------------
IsPost(e) == e.kind = "post"
\* the outcomes of the posts of the current call, in order
PostOutcomes == LET ps == SelectSeq(events, IsPost) IN
                [i \in 1..Len(ps) |-> ps[i].what]
Retryable(o) == o \in {"429", "503"}
AllSpace(s) == \A i \in DOMAIN s : IsSpace(s[i])
\* t is raw without its leading and trailing whitespace
IsTrimOf(t, raw) ==
  /\ \E a \in 0..Len(raw), b \in 0..Len(raw) :
       /\ a + Len(t) + b = Len(raw)
       /\ AllSpace(SubSeq(raw, 1, a))
       /\ SubSeq(raw, a + 1, a + Len(t)) = t
       /\ AllSpace(SubSeq(raw, a + Len(t) + 1, Len(raw)))
  /\ t # <<>> => ~IsSpace(t[1]) /\ ~IsSpace(t[Len(t)])

C2_Bounded == Len(PostOutcomes) <= MAX_RETRIES

\* C2: generate terminates for every sequence of endpoint outcomes and
\* makes at most MAX_RETRIES outbound attempts per call.
C2_TerminatesWithinMaxRetries ==
  []C2_Bounded /\ ((gpc = "post") ~> (gpc = "returned"))

\* a call returned after all MAX_RETRIES attempts
C2_Witness == gpc = "returned" /\ Len(PostOutcomes) = MAX_RETRIES

\* C3: on every return path of generate exactly one of the returned text
\* and error is non-null.
C3_ExactlyOneNonNull ==
  (gpc = "returned") => ((ret[1] = None) # (ret[2] = None))

\* a call returned the empty message of an exception raised on the final
\* attempt: the error is empty, yet not null
C3_Witness ==
  /\ gpc = "returned"
  /\ PostOutcomes = <<"timeout", "503", "exception">>
  /\ ret = <<None, Some("")>>

TwiceLimitedThenOk == gpc = "returned" /\ PostOutcomes = <<"429", "429", "ok">>

\* C4 as stated: after HTTP 429 on the first two attempts and a success on
\* the third, generate returns the trimmed text with no error and the call
\* counter has increased by 3.
C4_CounterReflectsThreeAttempts ==
  TwiceLimitedThenOk =>
    /\ ret[2] = None
    /\ ret[1] # None /\ IsTrimOf(ret[1][1], resp_text)
    /\ request_count = count_before + 3

\* C4 as amended: after HTTP 429 on the first two attempts and a success on
\* the third, generate returns the trimmed text with no error after exactly
\* 3 attempts, and the call counter has increased by exactly 1.
C4_SuccessOnThirdAttempt ==
  TwiceLimitedThenOk =>
    /\ ret[2] = None
    /\ ret[1] # None /\ IsTrimOf(ret[1][1], resp_text)
    /\ Len(PostOutcomes) = 3
    /\ request_count = count_before + 1

\* the third attempt answered a text with whitespace at both ends
C4_Witness ==
  /\ TwiceLimitedThenOk
  /\ resp_text = <<" ", "o", "k", "\n">>
  /\ ret = <<Some(<<"o", "k">>), None>>

\* C5: when each of the 3 attempts is answered 429 or 503, generate returns
\* (None, "Max retries exceeded") and leaves the call counter unchanged; no
\* text is returned.
C5_RetriesExhausted ==
  (/\ Len(PostOutcomes) = MAX_RETRIES
   /\ \A i \in DOMAIN PostOutcomes : Retryable(PostOutcomes[i])) =>
    /\ gpc = "returned"
    /\ ret = <<None, Some("Max retries exceeded")>>
    /\ request_count = count_before

\* a mix of 429 and 503 exhausted the attempts
C5_Witness ==
  /\ gpc = "returned"
  /\ PostOutcomes = <<"429", "503", "429">>

IsTimeoutPost(e) == e.kind = "post" /\ e.what = "timeout"

\* C6: a timeout on a non-final attempt is followed by a 1 second sleep and
\* a further attempt; a timeout on the final attempt returns
\* (None, "Request timeout") with no further attempt and no further sleep.
C6_TimeoutBackoff ==
  \A i \in DOMAIN events :
    IsTimeoutPost(events[i]) =>
      IF Len(SelectSeq(SubSeq(events, 1, i), IsPost)) < MAX_RETRIES
        THEN /\ i + 1 <= Len(events)
             /\ events[i + 1] = Ev("sleep", "timeout", ERROR_BACKOFF)
             /\ \/ gpc = "post" /\ i + 1 = Len(events)
                \/ i + 2 <= Len(events) /\ IsPost(events[i + 2])
        ELSE /\ i = Len(events)
             /\ gpc = "returned"
             /\ ret = <<None, Some("Request timeout")>>

\* a call that timed out on its second and on its final attempt
C6_Witness ==
  /\ gpc = "returned"
  /\ PostOutcomes = <<"503", "timeout", "timeout">>

\* ------------------------------------------------------------------------
\* Properties of translate_document
\* ------------------------------------------------------------------------
\* chunk number k went to the generator and generate returned an error
Failed(k) == ~chunk_log[k].cached /\ chunk_log[k].ret[2] # None
FailedChunks == {k \in DOMAIN chunk_log : Failed(k)}
\* the number of the j-th failed chunk
NthFailed(j) ==
  CHOOSE k \in FailedChunks :
    Cardinality({k2 \in FailedChunks : k2 < k}) = j - 1
ExpectedErrors ==
  [j \in 1..Cardinality(FailedChunks) |->
     [chunk_id |-> NthFailed(j) - 1, error |-> chunk_log[NthFailed(j)].ret[2][1]]]
ExpectedPlaceholder(text) ==
  Some(PlaceholderOpen \o SubSeq(text, 1, Min(100, Len(text)))
         \o PlaceholderClose)

C1_RunOutput ==
  /\ Len(chunk_log) = Len(chunks)
  /\ Len(translated_chunks) = Len(chunks)
  /\ \A k \in DOMAIN chunks :
       IF Failed(k)
         THEN translated_chunks[k] = ExpectedPlaceholder(chunks[k])
         ELSE translated_chunks[k] = chunk_log[k].ret[1]
  /\ errors = ExpectedErrors

\* C1: for any pattern of per-chunk generator errors translate_document
\* never aborts; every chunk is processed, the output sequence has one entry
\* per chunk in chunk-id order, a failed chunk's entry is the placeholder
\* "[Translation failed: <first 100 chars>...]" and the errors list has one
\* {chunk_id, error} record per failed chunk.
C1_NeverAborts ==
  /\ ppc # "raised"
  /\ (ppc = "done" /\ chunks # <<>>) => C1_RunOutput

\* C7: within one pipeline run any two consecutive outbound attempts of the
\* generator, of one generate call or of successive calls, start at least
\* 0.5 s apart.
C7_MinimumSpacing == last_gap >= RATE_LIMIT_GAP

\* ------------------------------------------------------------------------
\* Properties of the chunk loop
\* ------------------------------------------------------------------------
LogOf(kind) == SelectSeq(run_log, LAMBDA e : e.kind = kind)

\* C11: within one run the chunks are processed one after the other in
\* increasing id order: the cache lookup and the generate call for chunk i
\* happen only when the outputs of chunks 0..i-1 have been appended, the
\* generator is busy with at most one call, that of the current chunk, and
\* no chunk gets more than one generate call.
C11_SequentialInIdOrder ==
  LET looked == LogOf("lookup")
      gens == LogOf("generate")
      current == IF ppc \in {"generating", "raised"} THEN 1 ELSE 0
  IN /\ \A k \in DOMAIN looked : looked[k].a = k - 1
     /\ Len(looked) = idx + current
     /\ ppc \in {"loop", "generating"} => Len(translated_chunks) = idx
     /\ \A p \in DOMAIN run_log :
          run_log[p].kind = "generate" =>
            /\ p > 1
            /\ run_log[p - 1].kind = "lookup"
            /\ run_log[p - 1].a = run_log[p].a
     /\ \A k, m \in DOMAIN gens : k < m => gens[k].a < gens[m].a
     /\ gpc # "idle" =>
          /\ ppc = "generating"
          /\ gens # <<>>
          /\ gens[Len(gens)].a = idx

\* a finished run in which a cached chunk was followed by a generated one
C11_Witness ==
  /\ ppc = "done"
  /\ Len(chunks) = MaxChunks
  /\ chunk_log[1].cached
  /\ ~chunk_log[MaxChunks].cached

\* the latest chunk before the current one whose output is a translation (a
\* cache hit or a successful generation), 0 when there is none
LatestTranslated ==
  LET ok == {k \in 1..idx : ~Failed(k)} IN
  IF ok = {} THEN 0 ELSE CHOOSE k \in ok : \A j \in ok : j <= k

\* C12 as stated: every chunk i > 0 that misses the cache is prompted with
\* the continuation template whose context is the trailing (at most 200)
\* characters of the output of chunk i-1, and chunk 0 alone with the
\* first-chunk template.
C12_ContextOfPrecedingChunk ==
  ppc = "generating" =>
    /\ prompt.text = chunks[idx + 1]
    /\ IF idx = 0
         THEN prompt.template = "TRANSLATION_PROMPT"
         ELSE /\ prompt.template = "CONTEXT_PROMPT"
              /\ prompt.context =
                   Some(Suffix(translated_chunks[idx][1], CONTEXT_CHARS))

\* C12 (amended): the context of chunk i > 0 is the trailing (at most 200)
\* characters of the output of the latest chunk before i that was served
\* from the cache or generated successfully; when there is no such chunk or
\* that output is empty, and for chunk 0, the first-chunk template is used.
C12_ContextOfLatestTranslation ==
  ppc = "generating" =>
    LET k == LatestTranslated
        whole == IF k = 0 THEN <<>> ELSE translated_chunks[k][1]
        tail == IF Len(whole) <= CONTEXT_CHARS THEN whole
                ELSE SubSeq(whole, Len(whole) - CONTEXT_CHARS + 1, Len(whole))
    IN /\ prompt.text = chunks[idx + 1]
       /\ IF idx = 0 \/ tail = <<>>
            THEN prompt.template = "TRANSLATION_PROMPT" /\ prompt.context = None
            ELSE prompt.template = "CONTEXT_PROMPT" /\ prompt.context = Some(tail)

\* the second chunk is prompted with the last 200 of the 203 characters the
\* first chunk was translated to
C12_Witness ==
  /\ ppc = "generating"
  /\ idx = 1
  /\ translated_chunks[1] = Some(LongResponse)
  /\ prompt.context = Some(SubSeq(LongResponse, 4, Len(LongResponse)))

\* C13: whenever the cache holds an entry for a chunk's text when the chunk
\* is processed, whatever the stored translation is, the chunk is served
\* from the cache: no generate call is made for it and it is counted in
\* cached_chunks.
C13_StoredTranslationIsUsed ==
  LET held == {p \in DOMAIN run_log :
                 run_log[p].kind = "lookup" /\ run_log[p].b = 1}
  IN /\ \A p \in held :
          /\ ~(p < Len(run_log) /\ run_log[p + 1].kind = "generate")
          /\ run_log[p].a < Len(chunk_log) => chunk_log[run_log[p].a + 1].cached
     /\ cached_count = Cardinality(held)

\* C14: with the generation credential missing a run fails as a whole at
\* once: the chunks after the one that met the configuration error are not
\* processed, nothing is recorded as a per-chunk failure, the run does not
\* complete as a translated document, and the generator neither retries
\* nor posts.
C14_MissingKeyIsFatal ==
  api_key = None =>
    /\ Len(LogOf("generate")) <= 1
    /\ errors = <<>>
    /\ ppc = "done" => chunks = <<>>
    /\ attempt = 0
    /\ gpc # "post"

\* C15: the metadata of every completed run with at least one chunk has
\* total_chunks = successful_chunks + failed_chunks, failed_chunks is the
\* number of chunks whose generate call returned an error, and
\* cached_chunks <= successful_chunks.
C15_MetadataCounts ==
  ppc = "done" /\ Len(chunks) >= 1 =>
    LET m == result.metadata IN
    /\ m.total_chunks = Len(chunks)
    /\ m.total_chunks = m.successful_chunks + m.failed_chunks
    /\ m.failed_chunks = Cardinality(FailedChunks)
    /\ m.cached_chunks <= m.successful_chunks

\* a completed run with a cached chunk and a failed chunk
C15_Witness ==
  /\ ppc = "done"
  /\ Len(chunks) >= 1
  /\ result.metadata.cached_chunks >= 1
  /\ result.metadata.failed_chunks >= 1

\* C16: for an empty or white-space-only text the chunker returns no chunk,
\* and a run on a document of no chunks returns, without raising, the empty
\* text with the error-flagged metadata, having made no cache lookup, no
\* generate call and no progress callback.
C16_EmptyInput ==
  /\ \A t \in BlankTexts : chunk_document(t, CHUNK_SIZE, OVERLAP_SIZE) = <<>>
  /\ runs > 0 /\ chunks = <<>> =>
       /\ ppc = "done"
       /\ result.text = <<>>
       /\ result.metadata = [error |-> "No text to translate", chunks |-> 0]
       /\ run_log = <<>>
       /\ gpc = "idle"

\* a run on no chunks made after a run that filled the cache
C16_Witness ==
  /\ runs = MaxRuns
  /\ chunks = <<>>
  /\ ppc = "done"
  /\ cache # <<>>

\* ------------------------------------------------------------------------
\* Properties of translate_streaming
\* ------------------------------------------------------------------------
\* C17: for the same document, the same cache contents and the same
\* per-chunk generate results, the complete event carries exactly the final
\* text translate_document returns, also when chunks fail.
C17_SameFinalText ==
  ppc = "at_complete" =>
    yielded[Len(yielded)].translated_text =
      _combine_chunks(Unwrap(translated_chunks))

\* the two final texts agree when no chunk of the run failed
SameFinalTextWithoutFailure ==
  ppc = "at_complete" /\ FailedChunks = {} =>
    yielded[Len(yielded)].translated_text =
      _combine_chunks(Unwrap(translated_chunks))

\* the events of a fully consumed sequence over n >= 1 chunks
WellShaped(evs, n) ==
  /\ Len(evs) = 2 * n + 2
  /\ evs[1].type = "start"
  /\ \A i \in 0..(n - 1) :
       /\ evs[2 * i + 2].type = "progress"
       /\ evs[2 * i + 2].current = i + 1
       /\ evs[2 * i + 2].total = n
       /\ evs[2 * i + 3].type \in {"chunk_complete", "chunk_error"}
       /\ evs[2 * i + 3].chunk_id = i
  /\ evs[2 * n + 2].type = "complete"

\* C18: a fully consumed sequence is finite and is, for n >= 1 chunks, one
\* start event, then for each chunk in id order its progress event and
\* exactly one chunk_complete or chunk_error event, then one complete event
\* and nothing more; for no chunks it is the single error event.  A sequence
\* cut short by an exception has not this shape.
C18_EventShape ==
  /\ ppc # "raised"
  /\ ppc = "done" /\ runs > 0 =>
       IF chunks = <<>>
         THEN /\ Len(yielded) = 1
              /\ yielded[1].type = "error"
         ELSE WellShaped(yielded, Len(chunks))

\* the shape of the sequences that no exception cut short
ShapeWhenExhausted ==
  ppc = "done" /\ runs > 0 /\ chunks # <<>> => WellShaped(yielded, Len(chunks))

\* ------------------------------------------------------------------------
\* Properties of _combine_chunks
\* ------------------------------------------------------------------------
\* the lengths n in S at which the end of res and the start of chunk agree,
\* apart from the case of the letters
Agreeing(res, chunk, S) ==
  {n \in S : lower(Suffix(res, n)) = lower(Prefix(chunk, n))}

Largest(S) == CHOOSE n \in S : \A m \in S : m <= n

\* min(50, len(result), len(chunk))
Window(res, chunk) == Min(50, Min(Len(res), Len(chunk)))

\* C19 as stated: when the result ends with and the chunk begins with the
\* same string, apart from case, of some length between 10 and
\* min(50, len(result), len(chunk)), what is appended is the chunk without
\* its longest such prefix, with no separator (the text returned is the
\* trimmed result).
C19_LongestOverlapRemoved ==
  out # None =>
    LET res == arg[1]
        chunk == arg[2]
        S == Agreeing(res, chunk, 10..Window(res, chunk))
    IN S # {} =>
         out[1] = strip(res \o SubSeq(chunk, Largest(S) + 1, Len(chunk)))

\* C19 (amended): the lengths tried are w, w - 5, w - 10, ... as long as
\* they are greater than 10, where w = min(50, len(result), len(chunk)).
\* When the result ends with and the chunk begins with the same string,
\* apart from case, of one of these lengths, what is appended is the chunk
\* without its prefix of the largest such length, with no separator;
\* otherwise the whole chunk is appended after one space, whatever else the
\* two texts share.  The text returned is the trimmed result.
C19_TriedLengthRemoved ==
  out # None =>
    LET res == arg[1]
        chunk == arg[2]
        w == Window(res, chunk)
        tried == {n \in 11..w : (w - n) % 5 = 0}
        S == Agreeing(res, chunk, tried)
    IN out[1] = strip(IF S # {}
                        THEN res \o SubSeq(chunk, Largest(S) + 1, Len(chunk))
                        ELSE res \o <<" ">> \o chunk)

\* 16 shared characters that differ in case, at the end of 18 and at the
\* start of 21 characters: of the lengths tried, 18 and 13, the second agrees
C19_Witness ==
  /\ out # None
  /\ arg = <<Rep("a", 2) \o Shared("uniform", 16, FALSE),
             Shared("uniform", 16, TRUE) \o Rep("b", 5)>>
  /\ Len(out[1]) = Len(arg[1]) + Len(arg[2]) - 13

\* ------------------------------------------------------------------------
\* Properties of chunk_document
\* ------------------------------------------------------------------------
\* C20: for every non-empty text, chunk_size and overlap the chunks returned
\* have the ids 0, 1, ..., n-1 in the order of emission, and the text of
\* every chunk is non-empty after trimming.
C20_IdsAndTexts ==
  out # None /\ arg.text # <<>> =>
    \A k \in DOMAIN out[1] :
      /\ out[1][k].id = k - 1
      /\ strip(out[1][k].text) # <<>>

\* a text with a page marker that is cut into three chunks or more
C20_Witness ==
  /\ out # None
  /\ Len(out[1]) >= 3
  /\ \E i \in DOMAIN arg.text : IsMarker(arg.text[i])

\* the sentences the chunker works on: those of the text without its page
\* markers
SentencesOf(text) ==
  _split_into_sentences(
    JoinParts(text, 1, <<>>, <<[pos |-> 0, page |-> 1]>>).full_text)

NoLongSentence ==
  \A k \in DOMAIN SentencesOf(arg.text) :
    Len(SentencesOf(arg.text)[k]) <= arg.chunk_size

\* C21 as stated: when no sentence is longer than chunk_size characters,
\* the text of every chunk returned has at most chunk_size + overlap
\* characters.
C21_LengthCeiling ==
  out # None /\ NoLongSentence =>
    \A k \in DOMAIN out[1] :
      Len(out[1][k].text) <= arg.chunk_size + arg.overlap

\* C21 (amended): when no sentence is longer than chunk_size characters,
\* the text of every chunk returned has at most chunk_size characters if
\* overlap <= 0 and at most chunk_size + overlap + 1 characters if
\* overlap > 0: the overlap text, the space that joins it to the sentence,
\* and a sentence of up to chunk_size characters.
C21_LengthCeilingWithSeparator ==
  out # None /\ NoLongSentence =>
    \A k \in DOMAIN out[1] :
      Len(out[1][k].text) <=
        IF arg.overlap > 0 THEN arg.chunk_size + arg.overlap + 1
        ELSE arg.chunk_size

\* a chunk of chunk_size + overlap + 1 characters: overlap text, a space and
\* a sentence of chunk_size characters
C21_Witness ==
  /\ out # None
  /\ NoLongSentence
  /\ arg.overlap > 0
  /\ \E k \in DOMAIN out[1] :
       Len(out[1][k].text) = arg.chunk_size + arg.overlap + 1

\* the positions from p on at which s stands whole in t
Occurrences(s, t, p) ==
  {q \in p..(Len(t) - Len(s) + 1) : SubSeq(t, q, q + Len(s) - 1) = s}

Least(S) == CHOOSE n \in S : \A m \in S : n <= m

\* the sentences from the j-th on stand whole, one after the other, in the
\* chunks from the c-th on, the first of them not before position p of the
\* c-th chunk: each sentence is looked for at the earliest place after the
\* one before it
RECURSIVE PlacedInOrder(_, _, _, _, _)
PlacedInOrder(sentences, j, cs, c, p) ==
  IF j > Len(sentences) THEN TRUE
  ELSE LET s == sentences[j]
           from(c2) == IF c2 = c THEN p ELSE 1
           holding == {c2 \in c..Len(cs) :
                         Occurrences(s, cs[c2].text, from(c2)) # {}}
       IN IF holding = {} THEN FALSE
          ELSE LET c2 == Least(holding)
                   q == Least(Occurrences(s, cs[c2].text, from(c2)))
               IN PlacedInOrder(sentences, j + 1, cs, c2, q + Len(s))

\* C22: no sentence is dropped, reordered or split: every sentence the
\* splitter gives stands whole and contiguous in a chunk, also one longer
\* than chunk_size, and going through the sentences in their original order
\* the chunk each one is first found in never has a smaller id than that of
\* the sentence before it.
C22_SentencesKeptInOrder ==
  out # None => PlacedInOrder(SentencesOf(arg.text), 1, out[1], 1, 1)

\* three sentences or more, one of them longer than chunk_size, cut into two
\* chunks or more that overlap
C22_Witness ==
  /\ out # None
  /\ Len(SentencesOf(arg.text)) >= 3
  /\ ~NoLongSentence
  /\ arg.chunk_size > 0
  /\ arg.overlap > 0
  /\ Len(out[1]) >= 2

\* ------------------------------------------------------------------------
\* Properties of the progress callback and of the pauses
\* ------------------------------------------------------------------------
\* C23 as stated: every progress callback of a run is handed a value in
\* 1..total_chunks first and total_chunks second, and the first arguments
\* never decrease within the run.
C23_OneBasedIndex ==
  LET pr == LogOf("progress") IN
  /\ \A k \in DOMAIN pr : pr[k].a \in 1..Len(chunks) /\ pr[k].b = Len(chunks)
  /\ \A k, m \in DOMAIN pr : k < m => pr[k].a <= pr[m].a

\* C23 (amended): the first progress callback of a run, made before the
\* chunk loop, is handed 0; the one at the head of the iteration for chunk i
\* is handed i + 1 and the one after the loop total_chunks.  So every first
\* argument is in 0..total_chunks, every second argument is total_chunks,
\* and the first arguments never decrease within the run.
C23_ZeroThenOneBasedIndex ==
  LET pr == LogOf("progress")
      n == Len(chunks)
  IN /\ \A k \in DOMAIN pr :
          /\ pr[k].a = Min(k - 1, n)
          /\ pr[k].a \in 0..n
          /\ pr[k].b = n
     /\ \A k, m \in DOMAIN pr : k < m => pr[k].a <= pr[m].a
     /\ ppc = "loop" => Len(pr) = idx + 1
     /\ ppc = "done" /\ n > 0 => Len(pr) = n + 2

\* a completed run over the largest document: the callbacks 0, 1, ..., n, n
C23_Witness ==
  /\ ppc = "done"
  /\ Len(chunks) = MaxChunks
  /\ Len(LogOf("progress")) = MaxChunks + 2

\* ------------------------------------------------------------------------
\* Properties of the vector store
\* ------------------------------------------------------------------------
\* C24: search(query, k) with k >= 0 returns at most min(k, number of
\* stored chunks) results, each a stored chunk with its score against the
\* query, in the order of non-increasing score; on a store without chunks
\* it returns the empty sequence and embeds nothing.
C24_SearchResults ==
  out # None /\ arg.top_k >= 0 =>
    LET res == out[1]
        n == Len(store_chunks)
        q == embed(hash_of, arg.query)
    IN /\ Len(res) <= Min(arg.top_k, n)
       /\ \A i \in DOMAIN res :
            /\ \E k \in DOMAIN store_chunks : store_chunks[k] = res[i].chunk
            /\ res[i].score = similarity(q, res[i].chunk.embedding[1])
       /\ \A i, j \in DOMAIN res :
            i < j => ScoreAtLeast(res[i].score, res[j].score)
       /\ n = 0 => res = <<>> /\ embedded = 0

\* a search for one result in a store of two chunks, the second of which
\* scores higher than the first
C24_Witness ==
  /\ out # None
  /\ arg.top_k = 1
  /\ Len(store_chunks) = 2
  /\ Len(out[1]) = 1
  /\ out[1][1].chunk = store_chunks[2]
  /\ LET q == embed(hash_of, arg.query) IN
     ~ScoreAtLeast(similarity(q, store_chunks[1].embedding[1]),
                   similarity(q, store_chunks[2].embedding[1]))

\* ------------------------------------------------------------------------
\* Properties of the call counter
\* ------------------------------------------------------------------------
C25_Step ==
  /\ request_count' >= request_count
  /\ gpc' = "post" => request_count' = count_before'
  /\ gpc' = "returned" =>
       request_count' = count_before' + (IF ret'[1] # None THEN 1 ELSE 0)

\* C25: request_count never decreases; when a generate call returns it is
\* one more than when the call started if the call returns a text and the
\* same if it returns an error, however many attempts the call made, and it
\* does not change while the call is retrying.
C25_CounterCountsSuccesses == [][C25_Step]_vars

\* the second call returns an error after retries and leaves the counter at
\* the 1 that the first call, a success, set it to
C25_Witness ==
  /\ gpc = "returned"
  /\ calls = 2
  /\ ret[1] = None
  /\ attempt >= 1
  /\ count_before = 1
  /\ request_count = 1

\* ------------------------------------------------------------------------
\* Properties of the pulls of translate_streaming
\* ------------------------------------------------------------------------
\* the consumer holds the progress event of the chunk of id i, and it is the
\* latest event it has pulled
HoldsProgressOf(i) ==
  /\ yielded # <<>>
  /\ yielded[Len(yielded)].type = "progress"
  /\ yielded[Len(yielded)].current = i + 1

\* the cache and what generate has done
CacheAndGenerator ==
  <<cache, hits, misses, request_count, gpc, attempt, ret>>

C26_Step ==
  /\ \A p \in DOMAIN run_log' :
       p > Len(run_log) /\ run_log'[p].kind \in {"lookup", "generate"} =>
         HoldsProgressOf(run_log'[p].a)
  /\ CacheAndGenerator' # CacheAndGenerator =>
       /\ ppc \in {"at_progress", "generating"}
       /\ HoldsProgressOf(idx)
  /\ ppc = "abandoned" =>
       /\ CacheAndGenerator' = CacheAndGenerator
       /\ run_log' = run_log \/ run_log' = <<>>

\* C26: translate_streaming runs only when pulled.  A cache lookup, a
\* generate call, a step of generate or a cache write for chunk i happens
\* only in a pull made when the consumer already holds the progress event of
\* chunk i; and once the consumer has stopped pulling at an event, the
\* cache and the generator are left as they are and nothing more is done for
\* the chunks that remain.
C26_PullDriven == [][C26_Step]_vars

\* the consumer stopped pulling at the event of a generated chunk that is
\* not the last one
C26_Witness ==
  /\ ppc = "abandoned"
  /\ idx + 1 < Len(chunks)
  /\ run_log # <<>>
  /\ run_log[Len(run_log)].kind = "generate"
  /\ run_log[Len(run_log)].a = idx

\* ------------------------------------------------------------------------
\* Properties of the pause between chunks
\* ------------------------------------------------------------------------
\* chunk i was handed to the generator / was followed by the pause
Generated(i) == \E p \in DOMAIN run_log : run_log[p] = Lg("generate", i, 0)
Paused(i) == \E p \in DOMAIN run_log : run_log[p] = Lg("pause", i, 0)

\* C27: in translate_document the pause is made after each chunk that went
\* to the generator, whether generate gave a text or an error, if the chunk
\* is not the last one; it is made neither after the last chunk nor after a
\* chunk served from the cache.
C27_PauseAfterGeneratedChunk ==
  \A i \in 0..(Len(chunks) - 1) :
    LET over == i < idx \/ (i = idx /\ ppc = "raised") IN
    /\ Paused(i) => Generated(i) /\ i < Len(chunks) - 1 /\ over
    /\ over /\ Generated(i) /\ i < Len(chunks) - 1 => Paused(i)

\* the same for the chunks whose iteration has come to its end
PauseAfterGeneratedChunkIfNotRaised ==
  \A i \in 0..(Len(chunks) - 1) :
    /\ Paused(i) => Generated(i) /\ i < Len(chunks) - 1 /\ i < idx
    /\ i < idx /\ Generated(i) /\ i < Len(chunks) - 1 => Paused(i)

\* C28: in translate_streaming no pause is made after the final chunk: when
\* the complete event is yielded, the last chunk's event was not followed by
\* the pause.
C28_NoPauseBeforeComplete ==
  ppc = "at_complete" /\ chunks # <<>> => ~Paused(Len(chunks) - 1)

\* what the generator does: the pause follows every chunk that went to the
\* generator and whose event was yielded, the last chunk included
StreamPauseAfterEveryGeneratedChunk ==
  ppc \in {"at_progress", "generating", "at_chunk", "at_complete"} =>
    \A i \in 0..(Len(chunks) - 1) :
      Paused(i) <=> i < idx /\ Generated(i)

\* ------------------------------------------------------------------------
\* Properties of the overlap and of the positions of chunks
\* ------------------------------------------------------------------------
\* the last min(overlap, len(text)) characters of a chunk's text
LastChars(text, overlap) ==
  SubSeq(text, Len(text) - Min(overlap, Len(text)) + 1, Len(text))

\* C29 as stated, in its first half: with overlap > 0 the text of each chunk
\* after the first begins with the last min(overlap, len) characters of the
\* text of the chunk before it.
C29_OverlapPrefix ==
  out # None /\ arg.overlap > 0 =>
    \A k \in 1..(Len(out[1]) - 1) :
      LET shared == LastChars(out[1][k].text, arg.overlap) IN
      SubSeq(out[1][k + 1].text, 1, Len(shared)) = shared

\* the sentences j..j2, a space between two of them
RECURSIVE JoinedSentences(_, _, _)
JoinedSentences(sentences, j, j2) ==
  IF j > j2 THEN <<>>
  ELSE IF j = j2 THEN sentences[j]
  ELSE sentences[j] \o <<" ">> \o JoinedSentences(sentences, j + 1, j2)

\* the chunks from the k-th on are made of the sentences from the j-th on:
\* a chunk after the first is the last min(overlap, len) characters of the
\* chunk before it without their leading white space, a space, and the next
\* sentences with a space between two of them; the first chunk is the first
\* sentences alone
RECURSIVE OverlapThenSentences(_, _, _, _, _)
OverlapThenSentences(sentences, j, cs, k, overlap) ==
  IF k > Len(cs) THEN TRUE
  ELSE LET head == IF k = 1 THEN <<>>
                   ELSE lstrip(LastChars(cs[k - 1].text, overlap)) \o <<" ">>
           ends == {j2 \in j..Len(sentences) :
                      cs[k].text = head \o JoinedSentences(sentences, j, j2)}
       IN /\ ends # {}
          /\ OverlapThenSentences(sentences, Least(ends) + 1, cs, k + 1, overlap)

\* C29 (amended): with overlap > 0 the text of each chunk after the first
\* begins with the last min(overlap, len) characters of the text of the chunk
\* before it, less the white space they begin with, followed by a space and
\* the next sentence; the overlap is taken from the text of the chunk
\* finished before and is clamped to its length.
C29_TrimmedOverlapThenNextSentence ==
  out # None /\ arg.overlap > 0 =>
    OverlapThenSentences(SentencesOf(arg.text), 1, out[1], 1, arg.overlap)

\* two chunks or more, the first longer than overlap, whose last overlap
\* characters begin with a space that the chunk after it does not keep
C29_Witness ==
  /\ out # None
  /\ arg.overlap > 0
  /\ \E k \in 1..(Len(out[1]) - 1) :
       /\ Len(out[1][k].text) > arg.overlap
       /\ IsSpace(Head(LastChars(out[1][k].text, arg.overlap)))
       /\ ~IsSpace(Head(out[1][k + 1].text))

\* C30: for every chunk_size and every overlap >= 0 the positions of every
\* chunk returned are character offsets: 0 <= start_pos <= end_pos.
C30_ValidOffsets ==
  out # None /\ arg.overlap >= 0 =>
    \A k \in DOMAIN out[1] :
      0 <= out[1][k].start_pos /\ out[1][k].start_pos <= out[1][k].end_pos

\* the half of it that the code keeps: end_pos is never before start_pos,
\* and the first chunk starts at 0
EndNotBeforeStart ==
  out # None =>
    /\ \A k \in DOMAIN out[1] : out[1][k].start_pos <= out[1][k].end_pos
    /\ out[1] # <<>> => out[1][1].start_pos = 0

\* ------------------------------------------------------------------------
\* Properties of the page numbers of chunks
\* ------------------------------------------------------------------------
\* page_positions as chunk_document records them for the text
Recorded ==
  JoinParts(arg.text, 1, <<>>, <<[pos |-> 0, page |-> 1]>>).page_positions

\* the page recorded for the greatest recorded offset <= start, 1 without one
PageByOffset(start) ==
  LET below == {k \in DOMAIN Recorded : Recorded[k].pos <= start} IN
  IF below = {} THEN 1
  ELSE Recorded[CHOOSE k \in below :
                  \A m \in below : Recorded[m].pos <= Recorded[k].pos].page

\* the page markers of the text carry increasing numbers
MarkersIncreasing ==
  \A i, j \in DOMAIN arg.text :
    i < j /\ IsMarker(arg.text[i]) /\ IsMarker(arg.text[j]) =>
      PageOf(arg.text[i]) < PageOf(arg.text[j])

\* the first half of C31: the page of a chunk is the page recorded for the
\* greatest recorded offset that is <= its start_pos, 1 when there is none
PageOfGreatestOffset ==
  out # None =>
    \A k \in DOMAIN out[1] :
      out[1][k].page_number = PageByOffset(out[1][k].start_pos)

\* C31: the page of a chunk is the page recorded for the greatest recorded
\* offset that is <= its start_pos, 1 when there is none; and when the page
\* markers carry increasing numbers the pages of the chunks never decrease
\* in the order of their ids.
C31_PageNumbers ==
  out # None =>
    /\ \A k \in DOMAIN out[1] :
         out[1][k].page_number = PageByOffset(out[1][k].start_pos)
    /\ MarkersIncreasing =>
         \A k, m \in DOMAIN out[1] :
           k < m => out[1][k].page_number <= out[1][m].page_number

\* the pages never decrease when no chunk starts before the one before it
PagesFollowStarts ==
  out # None /\ MarkersIncreasing =>
    \A k, m \in DOMAIN out[1] :
      k < m /\ out[1][k].start_pos <= out[1][m].start_pos =>
        out[1][k].page_number <= out[1][m].page_number

\* ------------------------------------------------------------------------
\* Properties of a pipeline instance over several runs
\* ------------------------------------------------------------------------
\* C32: from the moment a run that has at least one chunk has indexed its
\* document, and so at its end, the vector store holds the chunks of that
\* document and nothing else: as many entries as chunks, the k-th with id
\* k - 1 and the text of the k-th chunk, none from an earlier document, each
\* with its embedding set; and the store says its index is built.
C32_StoreHoldsDocument ==
  ppc \in {"loop", "generating", "done", "raised"} /\ chunks # <<>> =>
    /\ index_built
    /\ Len(store_chunks) = Len(chunks)
    /\ \A k \in DOMAIN store_chunks :
         /\ store_chunks[k].id = k - 1
         /\ store_chunks[k].text = chunks[k]
         /\ store_chunks[k].embedding # None
         /\ store_chunks[k].embedding[1] = Embedding(hash_of, chunks[k])

\* a second run has ended whose document has a chunk, after an earlier run
\* whose document had chunks too
C32_Witness ==
  /\ ppc = "done"
  /\ runs >= 2
  /\ chunks # <<>>
  /\ work > Len(chunks)
  /\ Len(store_chunks) = Len(chunks)
  /\ store_chunks[1].embedding # None

\* what this run did: the generate calls that gave a text, and the cache
\* lookups that found and that did not find an entry
RunSuccesses ==
  Cardinality({k \in DOMAIN chunk_log :
                 ~chunk_log[k].cached /\ chunk_log[k].ret[1] # None})
RunLookups(held) ==
  Cardinality({p \in DOMAIN run_log :
                 run_log[p].kind = "lookup" /\ run_log[p].b = held})

\* C33: the metadata a run returns counts this run only: api_requests is the
\* number of generate calls of this run that succeeded, cache_stats.hits and
\* cache_stats.misses the numbers of cache hits and misses of this run, also
\* after earlier runs on the same instance.
C33_MetadataOfThisRun ==
  ppc = "done" /\ chunks # <<>> =>
    /\ result.metadata.api_requests = RunSuccesses
    /\ result.metadata.cache_stats.hits = RunLookups(1)
    /\ result.metadata.cache_stats.misses = RunLookups(0)

\* the same for the first run of an instance
MetadataOfFirstRun ==
  ppc = "done" /\ chunks # <<>> /\ runs = 1 =>
    /\ result.metadata.api_requests = RunSuccesses
    /\ result.metadata.cache_stats.hits = RunLookups(1)
    /\ result.metadata.cache_stats.misses = RunLookups(0)

\* chunk k of this run went to the generator and was handled as its text
\* says: without a text as a failure (placeholder, errors record), with a
\* text, an empty one too, as a success (the text is the output, no record)
HandledByText(k) ==
  LET recorded == \E j \in DOMAIN errors : errors[j].chunk_id = k - 1 IN
  IF chunk_log[k].ret[1] = None
    THEN recorded /\ translated_chunks[k] = ExpectedPlaceholder(chunks[k])
    ELSE ~recorded /\ translated_chunks[k] = chunk_log[k].ret[1]

\* C34: whatever generate returns within its contract, a null text makes
\* the chunk a failure and a non-null text makes it a success, and the run
\* raises no exception.
C34_NullTextIsFailure ==
  /\ ppc # "raised"
  /\ \A k \in DOMAIN chunk_log : ~chunk_log[k].cached => HandledByText(k)

\* the same when no generate call of the run ended with an empty message
HandledByTextUnlessEmptyMessage ==
  (\A k \in DOMAIN chunk_log : chunk_log[k].ret[2] # Some("")) =>
    /\ ppc # "raised"
    /\ \A k \in DOMAIN chunk_log : ~chunk_log[k].cached => HandledByText(k)

\* ------------------------------------------------------------------------
\* Properties of the cache over overwrites, languages and runs
\* ------------------------------------------------------------------------
\* C35: a set on a key the cache already holds evicts nothing: the keys
\* stored after it are the keys stored before it, also when the cache was at
\* its capacity.
C35_OverwriteKeepsKeys ==
  lastOp.op = "set" /\ lastOp.present => Keys(cache) = lastOp.before

\* the same for a cache below its capacity
OverwriteBelowCapacityKeepsKeys ==
  lastOp.op = "set" /\ lastOp.present /\ ~lastOp.full =>
    Keys(cache) = lastOp.before

\* C36: a chunk is served from the cache only with a translation that a run
\* with the same target language stored: a translation cached in a run to one
\* language is not returned in a later run that asks for another language.
C36_Step ==
  cached_count' = cached_count + 1 =>
    [key |-> _hash_key(chunks[idx + 1]), lang |-> target_lang] \in stored_lang
C36_NoHitAcrossLanguages == [][C36_Step]_vars

\* every entry of the cache was stored by a run, in the language on record
EveryEntryHasItsLanguage ==
  Keys(cache) = {e.key : e \in stored_lang}

\* the texts a generate call of a pipeline run can return
GeneratedTexts == {strip(p[2]) : p \in {q \in PipeInputs : q[1] = "ok"}}

\* C37: what the cache stores is a text that a successful generate call
\* returned, never the placeholder or the source text of a failed chunk; so
\* what a chunk is served from the cache is such a text, and a chunk that
\* failed is not served from the cache later.
C37_CacheHoldsGeneratedTexts ==
  /\ \A i \in DOMAIN cache :
       /\ cache[i].val # None
       /\ cache[i].val[1] \in GeneratedTexts
  /\ \A k \in DOMAIN chunk_log :
       chunk_log[k].cached =>
         /\ chunk_log[k].ret[1] # None
         /\ chunk_log[k].ret[1][1] \in GeneratedTexts

\* the part that the code keeps: no placeholder and no source text is
\* stored, and no chunk is served one
NoPlaceholderInCache ==
  /\ \A i \in DOMAIN cache :
       cache[i].val # None => cache[i].val[1] \in GeneratedTexts
  /\ \A k \in DOMAIN chunk_log :
       chunk_log[k].cached =>
         /\ chunk_log[k].ret[1] # None
         /\ chunk_log[k].ret[1][1] \in GeneratedTexts

\* C38: when a run repeats, with no run in between, a run on the same
\* document that gave every chunk a translation that is not empty, and the
\* document has no more different chunk texts than the cache has capacity,
\* it makes no generate call, reports every chunk as cached and none as
\* failed, and returns the text the first run returned.
C38_RepeatServedFromCache ==
  repeat_of # None
    /\ Cardinality({chunks[k] : k \in DOMAIN chunks}) <= max_size =>
    /\ LogOf("generate") = <<>>
    /\ ppc \in {"loop", "done"}
    /\ ppc = "done" =>
         /\ result.metadata.total_chunks = Len(chunks)
         /\ result.metadata.cached_chunks = Len(chunks)
         /\ result.metadata.failed_chunks = 0
         /\ result.text = repeat_of[1]

\* ------------------------------------------------------------------------
\* Properties of the quality issues
\* ------------------------------------------------------------------------
FailureTag == "Translation failed for some chunks"

\* C39: the metadata of a run that has failed chunks, whose final text holds
\* a failure placeholder, reports the failure tag among its quality issues.
C39_FailureIsReported ==
  ppc = "done" /\ chunks # <<>> /\ result.metadata.failed_chunks > 0 =>
    /\ result.metadata.quality_issues # None
    /\ \E j \in DOMAIN result.metadata.quality_issues[1] :
         result.metadata.quality_issues[1][j] = FailureTag

\* what the code reports instead: the tag stands for the words
\* "Translation unavailable" in the final text, which no placeholder holds
TagMeansUnavailable ==
  ppc = "done" /\ chunks # <<>> =>
    LET issues == IF result.metadata.quality_issues = None THEN <<>>
                  ELSE result.metadata.quality_issues[1]
    IN (\E j \in DOMAIN issues : issues[j] = FailureTag)
         <=> (\E i \in 1..(Len(result.text) - Len(UnavailableMark) + 1) :
                SubSeq(result.text, i, i + Len(UnavailableMark) - 1)
                  = UnavailableMark)

\* ------------------------------------------------------------------------
\* Properties of the cache under two runs at one time
\* ------------------------------------------------------------------------
\* C40: with two runs at one time on the shared pipeline instance the cache
\* never holds more entries than its capacity, however the statements of
\* get and set of the two runs interleave.
C40_SizeAtMostCapacityWhenShared ==
  Cardinality(Keys(cache)) <= max_size

\* what two runs can come to: one entry more than the capacity
AtMostOneAboveCapacity ==
  Cardinality(Keys(cache)) <= max_size + 1

====
